---- MODULE Spec2Model ----
(***************************************************************************)
(* A model of the filetools crate (src/src/lib.rs, sync.rs, util.rs,       *)
(* naming.rs): directory creation, the directory walker iteritems /        *)
(* iteritems_sync and the sixteen listing functions built on it.           *)
(*                                                                         *)
(* A file name is a sequence of one-character strings, a path is a         *)
(* sequence of names below the filesystem root <<>>, whose text is "/".    *)
(* The filesystem is a function from the paths that exist to their kind:   *)
(* "dir", "file" or "other" (an entry that is neither, a dangling link).   *)
(***************************************************************************)
EXTENDS Integers, Sequences, FiniteSets, TLC

VARIABLES fs, last, calls, makers

vars == <<fs, last, calls, makers>>

(* ----------------------------- bounds ---------------------------------- *)

\* Depth of the paths the callers and the environment name.
MaxDepth == 2
\* Entries that exist at once below the root.
MaxEntries == 3
\* Largest number handed to create_numeric_directories as start or end.
MaxNum == 2
\* Longest list of names handed to create_multiple_directories.
MaxNames == 2

\* The symbolic links the kernel follows in one path before it gives up.
MaxHops == 2

\* The widths handed to create_numeric_directories: none, and two digits.
Fills == {0, 2}

(* ------------------------------ paths ---------------------------------- *)

Root == <<>>

\* The names the callers and the environment use.
Names == {<<"a">>, <<"b">>}

\* Every character of a name or of a path text, in collating order.
AllChars ==
    <<"/", ".", "0", "1", "2", "3", "4", "5", "6", "7", "8", "9", "a", "b", "~">>

RECURSIVE PathsOfLen(_)
PathsOfLen(n) ==
    IF n = 0 THEN {Root}
    ELSE {Append(p, x) : p \in PathsOfLen(n - 1), x \in Names}

\* The paths of at most n names.
PathsUpTo(n) == UNION {PathsOfLen(k) : k \in 0..n}

Paths == PathsUpTo(MaxDepth)

\* The relative paths handed to create_multiple_directories: a name, or a
\* name below a name.
RelPaths == {<<x>> : x \in Names} \cup {<<<<"a">>, <<"b">>>>}

\* Path::join of a relative path.
join(p, rel) == p \o rel

parent(p) == SubSeq(p, 1, Len(p) - 1)

\* The proper ancestors of p, the root included.
Ancestors(p) == {SubSeq(p, 1, k) : k \in 0..(Len(p) - 1)}

IsPrefix(a, p) == Len(a) <= Len(p) /\ SubSeq(p, 1, Len(a)) = a

\* The entries of f below d, at any depth.
Below(f, d) == {p \in DOMAIN f : p # d /\ IsPrefix(d, p)}

\* The direct children of d in f.
Children(f, d) == {p \in DOMAIN f : Len(p) = Len(d) + 1 /\ IsPrefix(d, p)}

Kind(f, p) == IF p \in DOMAIN f THEN f[p] ELSE "none"

(* ------------------------- filesystem calls ---------------------------- *)

\* A symbolic link points to this path.
LinkTarget == <<<<"a">>>>

\* The kernel walks the names of rest from the directory cur and follows
\* each symbolic link it meets, the link of the last name included, at most
\* hops of them: the path it arrives at, whether something is there or not,
\* or the error of the walk.
RECURSIVE Walk(_, _, _, _)
Walk(f, cur, rest, hops) ==
    IF rest = <<>> THEN [err |-> "none", path |-> cur]
    ELSE LET next == Append(cur, Head(rest))
             final == Tail(rest) = <<>>
         IN CASE Kind(f, next) = "dir" -> Walk(f, next, Tail(rest), hops)
              [] Kind(f, next) = "link" ->
                   IF hops = 0 THEN [err |-> "TooManyLinks", path |-> next]
                   ELSE Walk(f, Root, LinkTarget \o Tail(rest), hops - 1)
              [] Kind(f, next) = "file" ->
                   IF final THEN [err |-> "none", path |-> next]
                   ELSE [err |-> "NotADirectory", path |-> next]
              [] OTHER ->
                   IF final THEN [err |-> "none", path |-> next]
                   ELSE [err |-> "NotFound", path |-> next]

\* The metadata call of Path::exists, is_dir and is_file, which follows
\* links, and the kind of what it finds.
stat(f, p) == Walk(f, Root, p, MaxHops)

StatKind(f, p) ==
    IF stat(f, p).err = "none" THEN Kind(f, stat(f, p).path) ELSE "none"

\* The error the kernel reports while walking the directories in front of
\* p, or "none": the first ancestor that is missing or is no directory
\* decides.
ResolveErr(f, p) ==
    IF p = Root THEN "none"
    ELSE LET s == stat(f, parent(p)) IN
         CASE s.err # "none"            -> s.err
           [] Kind(f, s.path) = "dir"   -> "none"
           [] Kind(f, s.path) = "file"  -> "NotADirectory"
           [] OTHER                     -> "NotFound"

\* Where the entry p itself is, the links in front of it followed.
RealPath(f, p) ==
    IF p = Root THEN Root ELSE Append(stat(f, parent(p)).path, p[Len(p)])

\* is_file, mutated: the existence test in its place.
is_file_exists(f, p) == StatKind(f, p) \in {"dir", "file"}

\* is_dir, mutated: never a directory, so that no walk descends.
is_dir_never(f, p) == FALSE

\* Path::exists, Path::is_dir, Path::is_file: a failed metadata call is false.
exists(f, p) == StatKind(f, p) \in {"dir", "file"}

is_dir(f, p) == StatKind(f, p) = "dir"

\* Path::is_file, mutated: whatever is no directory counts as a file.
is_file_not_dir(f, p) == StatKind(f, p) # "dir"

is_file(f, p) == StatKind(f, p) = "file"

\* fs::create_dir: one mkdir call.
create_dir(f, p) ==
    LET e == ResolveErr(f, p) IN
    IF e # "none" THEN [ok |-> FALSE, err |-> e, fs |-> f]
    ELSE IF RealPath(f, p) \in DOMAIN f
    THEN [ok |-> FALSE, err |-> "AlreadyExists", fs |-> f]
    ELSE [ok |-> TRUE, err |-> "none", fs |-> (RealPath(f, p) :> "dir") @@ f]

\* fs::create_dir_all: mkdir, on NotFound the parent first and mkdir again;
\* another error is success when the path is a directory by then.
RECURSIVE create_dir_all(_, _)
create_dir_all(f, p) ==
    LET first == create_dir(f, p) IN
    IF first.ok THEN first
    ELSE IF first.err # "NotFound"
    THEN IF is_dir(f, p) THEN [ok |-> TRUE, err |-> "none", fs |-> f] ELSE first
    ELSE IF p = Root THEN first
    ELSE LET up == create_dir_all(f, parent(p)) IN
         IF ~up.ok THEN up
         ELSE LET second == create_dir(up.fs, p) IN
              IF second.ok THEN second
              ELSE IF is_dir(up.fs, p)
                   THEN [ok |-> TRUE, err |-> "none", fs |-> up.fs]
                   ELSE second

(* ------------------------- directory creation -------------------------- *)

\* ensure_directory, mutated: the existence test is dropped.
ensure_directory_nocheck(f, dir) ==
    LET r == create_dir(f, dir) IN
    IF r.ok THEN r ELSE [ok |-> FALSE, err |-> "unable to create directory", fs |-> r.fs]

\* ensure_directory, mutated: the parent is created in place of the path.
ensure_directory_parent(f, dir) ==
    IF ~exists(f, dir)
    THEN LET r == create_dir_all(f, parent(dir)) IN
         IF r.ok THEN r
         ELSE [ok |-> FALSE, err |-> "unable to create directory", fs |-> r.fs]
    ELSE [ok |-> TRUE, err |-> "none", fs |-> f]

\* ensure_directory, mutated: the guard tests that the path is a directory.
ensure_directory_typed(f, dir) ==
    IF ~is_dir(f, dir)
    THEN LET r == create_dir_all(f, dir) IN
         IF r.ok THEN r
         ELSE [ok |-> FALSE, err |-> "unable to create directory", fs |-> r.fs]
    ELSE [ok |-> TRUE, err |-> "none", fs |-> f]

\* ensure_directory.
ensure_directory(f, dir) ==
    IF ~exists(f, dir)
    THEN LET r == create_dir_all(f, dir) IN
         IF r.ok THEN r
         ELSE [ok |-> FALSE, err |-> "unable to create directory", fs |-> r.fs]
    ELSE [ok |-> TRUE, err |-> "none", fs |-> f]

(* ------------------------------- naming -------------------------------- *)

Digit(d) == <<"0", "1", "2", "3", "4", "5", "6", "7", "8", "9">>[d + 1]

\* The decimal digits of a usize.
RECURSIVE Digits(_)
Digits(n) ==
    IF n < 10 THEN <<Digit(n)>> ELSE Append(Digits(n \div 10), Digit(n % 10))

\* The format {:0fill$}, mutated: the width fill is also the most that is
\* written, the leading digits of a longer number are cut.
ZeroPad_cut(t, fill) ==
    IF Len(t) >= fill
    THEN SubSeq(t, Len(t) - fill + 1, Len(t))
    ELSE [i \in 1..(fill - Len(t)) |-> "0"] \o t

\* The format {:0fill$}: zeros in front up to the width fill, never a cut.
RECURSIVE ZeroPad(_, _)
ZeroPad(t, fill) == IF Len(t) >= fill THEN t ELSE ZeroPad(<<"0">> \o t, fill)

make_extension(ext) == IF ext = <<>> THEN <<>> ELSE <<".">> \o ext

generate_n_digit_name(number, fill, ext) ==
    ZeroPad(Digits(number), fill) \o make_extension(ext)

generate_name(name, ext) == name \o make_extension(ext)

\* The moments UTC::now() returns in the model.
Moments ==
    {[d |-> 4, m |-> 11, Y |-> 2026, H |-> 9, M |-> 5, S |-> 0],
     [d |-> 31, m |-> 12, Y |-> 1999, H |-> 23, M |-> 59, S |-> 59]}

\* DateTime::format("%d_%m_%Y_%Hh%Mm%Ss").
format(dt) ==
    ZeroPad(Digits(dt.d), 2) \o <<"_">> \o ZeroPad(Digits(dt.m), 2) \o <<"_">>
    \o ZeroPad(Digits(dt.Y), 4) \o <<"_">> \o ZeroPad(Digits(dt.H), 2) \o <<"h">>
    \o ZeroPad(Digits(dt.M), 2) \o <<"m">> \o ZeroPad(Digits(dt.S), 2) \o <<"s">>

\* now is what UTC::now() returned.
generate_timestamped_name(fname, ext, now) ==
    IF fname = <<>>
    THEN format(now) \o make_extension(ext)
    ELSE fname \o <<"_">> \o format(now) \o make_extension(ext)

\* The texts of the identifiers Uuid::new_v4() returns in the model,
\* shortened to their first group and the version digit.
Uuids ==
    {<<"0", "0", "7", "6", "-", "4", "3", "c", "1">>,
     <<"b", "1", "f", "a", "-", "4", "3", "b", "b">>}

\* unique is what Uuid::new_v4() returned.
generate_uuid4_name(ext, unique) == unique \o make_extension(ext)

(* ----------------------- creation of several directories ---------------- *)

\* create_multiple_from, mutated: a failing name is passed over and the
\* first error is returned at the end.
RECURSIVE create_multiple_through(_, _, _, _)
create_multiple_through(f, path, directories, i) ==
    IF i > Len(directories) THEN [ok |-> TRUE, err |-> "none", fs |-> f]
    ELSE LET r == ensure_directory(f, join(path, directories[i]))
             rest == create_multiple_through(r.fs, path, directories, i + 1)
         IN IF ~r.ok THEN [ok |-> FALSE, err |-> r.err, fs |-> rest.fs]
            ELSE rest

\* create_multiple_directories from the i-th name on: the first failing
\* ensure_directory ends the loop.
RECURSIVE create_multiple_from(_, _, _, _)
create_multiple_from(f, path, directories, i) ==
    IF i > Len(directories) THEN [ok |-> TRUE, err |-> "none", fs |-> f]
    ELSE LET r == ensure_directory(f, join(path, directories[i])) IN
         IF ~r.ok THEN r
         ELSE create_multiple_from(r.fs, path, directories, i + 1)

create_multiple_directories(f, path, directories) ==
    create_multiple_from(f, path, directories, 1)

\* create_numeric_from, mutated: the loop over start..=end.
RECURSIVE create_numeric_through(_, _, _, _, _)
create_numeric_through(f, path, i, end, fill) ==
    IF i > end THEN [ok |-> TRUE, err |-> "none", fs |-> f]
    ELSE LET name == join(path, <<generate_n_digit_name(i, fill, <<>>)>>)
             r == ensure_directory(f, name)
         IN IF ~r.ok
            THEN [ok |-> FALSE, err |-> "creating numeric directories", fs |-> r.fs]
            ELSE create_numeric_through(r.fs, path, i + 1, end, fill)

\* create_numeric_directories from the number i on: the loop over
\* start..end, which leaves end out.
RECURSIVE create_numeric_from(_, _, _, _, _)
create_numeric_from(f, path, i, end, fill) ==
    IF i >= end THEN [ok |-> TRUE, err |-> "none", fs |-> f]
    ELSE LET name == join(path, <<generate_n_digit_name(i, fill, <<>>)>>)
             r == ensure_directory(f, name)
         IN IF ~r.ok
            THEN [ok |-> FALSE, err |-> "creating numeric directories", fs |-> r.fs]
            ELSE create_numeric_from(r.fs, path, i + 1, end, fill)

\* create_numeric_directories, mutated: the root is ensured before the loop.
create_numeric_directories_rooted(f, path, start, end, fill) ==
    LET r == ensure_directory(f, path) IN
    IF ~r.ok THEN [ok |-> FALSE, err |-> "creating numeric directories", fs |-> r.fs]
    ELSE create_numeric_from(r.fs, path, start, end, fill)

create_numeric_directories(f, path, start, end, fill) ==
    create_numeric_from(f, path, start, end, fill)

(* ------------------- directory creation, sync module ------------------- *)

\* sync::ensure_directory.
sync_ensure_directory(f, dir) ==
    IF ~exists(f, dir)
    THEN LET r == create_dir_all(f, dir) IN
         IF r.ok THEN r
         ELSE [ok |-> FALSE, err |-> "unable to create directory", fs |-> r.fs]
    ELSE [ok |-> TRUE, err |-> "none", fs |-> f]

RECURSIVE sync_create_multiple_from(_, _, _, _)
sync_create_multiple_from(f, path, directories, i) ==
    IF i > Len(directories) THEN [ok |-> TRUE, err |-> "none", fs |-> f]
    ELSE LET r == sync_ensure_directory(f, join(path, directories[i])) IN
         IF ~r.ok THEN r
         ELSE sync_create_multiple_from(r.fs, path, directories, i + 1)

\* sync::create_multiple_directories.
sync_create_multiple_directories(f, path, directories) ==
    sync_create_multiple_from(f, path, directories, 1)

RECURSIVE sync_create_numeric_from(_, _, _, _, _)
sync_create_numeric_from(f, path, i, end, fill) ==
    IF i >= end THEN [ok |-> TRUE, err |-> "none", fs |-> f]
    ELSE LET name == join(path, <<generate_n_digit_name(i, fill, <<>>)>>)
             r == sync_ensure_directory(f, name)
         IN IF ~r.ok
            THEN [ok |-> FALSE, err |-> "creating numeric directories", fs |-> r.fs]
            ELSE sync_create_numeric_from(r.fs, path, i + 1, end, fill)

\* sync::create_numeric_directories.
sync_create_numeric_directories(f, path, start, end, fill) ==
    sync_create_numeric_from(f, path, start, end, fill)

(* ------------------------------ filters -------------------------------- *)

\* A character that stands for a byte sequence that is no valid UTF-8.
NonText == "~"

RECURSIVE NamesText(_)
NamesText(p) ==
    IF p = <<>> THEN <<>> ELSE <<"/">> \o Head(p) \o NamesText(Tail(p))

\* The text of an absolute path: "/" for the root, "/a/b" for <<a, b>>.
PathText(p) == IF p = Root THEN <<"/">> ELSE NamesText(p)

\* The text of a relative path: "a/b".
RelText(p) == IF p = <<>> THEN <<>> ELSE Tail(NamesText(p))

\* OsStr::to_str is Some exactly when the text is valid UTF-8.
IsText(t) == \A i \in 1..Len(t) : t[i] # NonText

\* str::contains, mutated: pat is the start of t.
starts_with(t, pat) == Len(pat) <= Len(t) /\ SubSeq(t, 1, Len(pat)) = pat

\* str::contains: pat is a contiguous part of t.
contains(t, pat) ==
    \E i \in 0..(Len(t) - Len(pat)) : SubSeq(t, i + 1, i + Len(pat)) = pat

\* path_contains on the texts of its two arguments.
path_contains(t, pat) == IsText(t) /\ IsText(pat) /\ contains(t, pat)

\* The types an argument of path_contains is passed as. A str and a String
\* hold valid UTF-8; a Path and a PathBuf hold any bytes.
ArgTypes == {"str", "String", "Path", "PathBuf"}

Holds(type, t) == type \in {"Path", "PathBuf"} \/ IsText(t)

\* AsRef<Path>::as_ref: the bytes of the argument, unchanged, as a Path.
as_ref(arg) == arg.bytes

\* Path::to_str: the text of the path, if it is valid UTF-8.
to_str(t) == IF IsText(t) THEN [some |-> TRUE, str |-> t] ELSE [some |-> FALSE, str |-> <<>>]

\* path_contains on its two arguments as the caller passes them.
path_contains_args(path, pattern) ==
    LET p == to_str(as_ref(path))
        pat == to_str(as_ref(pattern))
    IN IF p.some
       THEN IF pat.some THEN contains(p.str, pat.str) ELSE FALSE
       ELSE FALSE

\* The pieces of a text between its separators "/", empty ones included.
RECURSIVE Split(_, _, _)
Split(t, i, piece) ==
    IF i > Len(t) THEN <<piece>>
    ELSE IF t[i] = "/" THEN <<piece>> \o Split(t, i + 1, <<>>)
    ELSE Split(t, i + 1, Append(piece, t[i]))

\* Path::components of a Unix path: the root for a leading "/", then one
\* component per piece that is not empty; a piece "." is a component only
\* as the first piece of a relative path, a piece ".." is the parent.
components(t) ==
    LET pieces == Split(t, 1, <<>>)
        rooted == t # <<>> /\ t[1] = "/"
        kept == SelectSeq([i \in 1..Len(pieces) |-> [at |-> i, os |-> pieces[i]]],
                          LAMBDA x : /\ x.os # <<>>
                                     /\ (x.os = <<".">> => x.at = 1))
        Component(x) ==
            CASE x.os = <<".">> -> [kind |-> "CurDir", os |-> x.os]
              [] x.os = <<".", ".">> -> [kind |-> "ParentDir", os |-> x.os]
              [] OTHER -> [kind |-> "Normal", os |-> x.os]
    IN (IF rooted THEN <<[kind |-> "RootDir", os |-> <<"/">>]>> ELSE <<>>)
       \o [i \in 1..Len(kept) |-> Component(kept[i])]

\* is_subdir, mutated: the last component of path, the entry itself, is not
\* looked at, only the directories above it.
is_subdir_above(path, dir) ==
    LET cs == components(as_ref(path))
    IN \E i \in 1..(Len(cs) - 1) :
          cs[i].kind = "Normal" /\ cs[i].os = as_ref(dir)

\* is_subdir: a Normal component of path equals the OsStr of dir.
is_subdir(path, dir) ==
    LET cs == components(as_ref(path))
    IN \E i \in 1..Len(cs) :
          cs[i].kind = "Normal" /\ cs[i].os = as_ref(dir)

\* matches_filter, mutated: the filter is matched against the file name of
\* the entry, the last component of its path.
matches_filter_name(item, filter) ==
    IF item = Root THEN FALSE
    ELSE CASE filter.kind = "Raw"   -> IsText(item[Len(item)])
                                         /\ IsText(filter.pat)
                                         /\ contains(item[Len(item)], filter.pat)
           [] filter.kind = "Path"  -> IsText(item[Len(item)])
                                         /\ IsText(filter.pat)
                                         /\ contains(item[Len(item)], filter.pat)
           [] filter.kind = "Regex" -> contains(item[Len(item)], filter.pat)

\* matches_filter when it returns. A filter holds the text of its payload:
\* Raw a string, Path the text of a relative path, Regex a regular
\* expression made of literal characters, whose is_match is an unanchored
\* search of that text.
matches_filter(item, filter) ==
    CASE filter.kind = "Raw"   -> path_contains(PathText(item), filter.pat)
      [] filter.kind = "Path"  -> path_contains(PathText(item), filter.pat)
      [] filter.kind = "Regex" -> contains(PathText(item), filter.pat)

\* matches_filter panics: to_str().unwrap() of a path that is no text.
matches_filter_panics(item, filter) ==
    filter.kind = "Regex" /\ ~IsText(PathText(item))

NoFilter == [kind |-> "None", pat |-> <<>>]

\* The filters the callers pass.
Filters ==
    {[kind |-> "Raw", pat |-> <<"b">>],
     [kind |-> "Path", pat |-> RelText(<<<<"a">>>>)],
     [kind |-> "Regex", pat |-> <<"a", "/", "b">>]}

(* ------------------------------ read_dir ------------------------------- *)

Rank(c) == CHOOSE i \in 1..Len(AllChars) : AllChars[i] = c

RECURSIVE NameLess(_, _)
NameLess(x, y) ==
    IF x = <<>> THEN y # <<>>
    ELSE IF y = <<>> THEN FALSE
    ELSE IF Head(x) = Head(y) THEN NameLess(Tail(x), Tail(y))
    ELSE Rank(Head(x)) < Rank(Head(y))

Last(p) == p[Len(p)]

\* The paths of S as the platform enumerates them: by name, up or down.
RECURSIVE Enumerate(_, _)
Enumerate(S, order) ==
    IF S = {} THEN <<>>
    ELSE LET m == CHOOSE x \in S : \A y \in S \ {x} :
                      IF order = "asc" THEN NameLess(Last(x), Last(y))
                                       ELSE NameLess(Last(y), Last(x))
         IN <<m>> \o Enumerate(S \ {m}, order)

\* What the environment does to one listing call: the order in which
\* directories enumerate their entries and, with fault.on, one directory
\* whose read fails: at = 0 when read_dir itself fails, at = k > 0 when the
\* stream yields k - 1 entries and then an error (k - 1 is at most the
\* number of entries: the error may come in place of the end).
NoFault == [on |-> FALSE, dir |-> Root, at |-> 0]

OkEntry(p) == [ok |-> TRUE, path |-> p]

ErrEntry == [ok |-> FALSE, path |-> Root]

\* DirEntry::path: the path handed to read_dir joined with the name of the
\* entry c.
entry_path(path, c) == Append(path, c[Len(c)])

\* The stream of read_dir(path) when path leads to the directory at real.
Entries(path, real, env) ==
    Enumerate({entry_path(path, c) : c \in Children(fs, real)}, env.order)

\* read_dir, mutated: reading a path that is no directory yields no entry.
read_dir_lenient(path, env) ==
    IF StatKind(fs, path) # "dir"
    THEN [ok |-> TRUE, err |-> "none", entries |-> <<>>]
    ELSE LET all == Entries(path, stat(fs, path).path, env) IN
         [ok |-> TRUE, err |-> "none",
          entries |-> [i \in 1..Len(all) |-> OkEntry(all[i])]]

\* fs::read_dir and the entries its stream yields: the children in the
\* platform's order, cut by an error entry where the environment fails the
\* enumeration.
read_dir(path, env) ==
    LET s == stat(fs, path) IN
    IF s.err # "none" THEN [ok |-> FALSE, err |-> s.err, entries |-> <<>>]
    ELSE IF Kind(fs, s.path) \in {"none", "other"}
    THEN [ok |-> FALSE, err |-> "NotFound", entries |-> <<>>]
    ELSE IF Kind(fs, s.path) = "file"
    THEN [ok |-> FALSE, err |-> "NotADirectory", entries |-> <<>>]
    ELSE IF env.fault.on /\ env.fault.dir = path /\ env.fault.at = 0
    THEN [ok |-> FALSE, err |-> "PermissionDenied", entries |-> <<>>]
    ELSE LET all == Entries(path, s.path, env)
             good == [i \in 1..Len(all) |-> OkEntry(all[i])]
         IN [ok |-> TRUE, err |-> "none",
             entries |-> IF env.fault.on /\ env.fault.dir = path
                            /\ env.fault.at - 1 <= Len(all)
                         THEN SubSeq(good, 1, env.fault.at - 1) \o <<ErrEntry>>
                         ELSE good]

(* ------------------------------ walkers -------------------------------- *)

\* What a walker returns: Ok(items), Err(err) or a panic, with the
\* directory reads it issued and the I/O errors it met on the way.
Done(items, reads, ioerrs) ==
    [status |-> "ok", err |-> "none", items |-> items, reads |-> reads,
     ioerrs |-> ioerrs]

Failed(err, reads, ioerrs) ==
    [status |-> "err", err |-> err, items |-> <<>>, reads |-> reads,
     ioerrs |-> ioerrs]

Panicked(reads, ioerrs) ==
    [status |-> "panic", err |-> "unwrap on None", items |-> <<>>,
     reads |-> reads, ioerrs |-> ioerrs]

filter_pass(e_path, filter) ==
    IF filter.kind = "None" THEN TRUE ELSE matches_filter(e_path, filter)

RECURSIVE iteritems(_, _, _, _), iteritems_loop(_, _, _, _, _, _)

\* iteritems, mutated: the entries of the directory are gone through twice.
iteritems_twice(path, iterstate, filter, env) ==
    LET rd == read_dir(path, env) IN
    IF ~rd.ok THEN Failed("list items inner call", <<path>>, 1)
    ELSE iteritems_loop(rd.entries \o rd.entries, 1, iterstate, filter, env,
                        Done(<<>>, <<path>>, 0))

\* iteritems: the async walker.
iteritems(path, iterstate, filter, env) ==
    LET rd == read_dir(path, env) IN
    IF ~rd.ok THEN Failed("list items inner call", <<path>>, 1)
    ELSE iteritems_loop(rd.entries, 1, iterstate, filter, env,
                        Done(<<>>, <<path>>, 0))

RECURSIVE iteritems_loop_pruning(_, _, _, _, _, _)

\* iteritems_loop, mutated: the filter prunes the walk, a directory that
\* does not pass it is not descended into.
iteritems_loop_pruning(entries, i, iterstate, filter, env, acc) ==
    IF i > Len(entries) THEN acc
    ELSE IF ~entries[i].ok THEN Failed("next_entry", acc.reads, acc.ioerrs + 1)
    ELSE LET e_path == entries[i].path
             push == Done(Append(acc.items, e_path), acc.reads, acc.ioerrs)
             descend(from) ==
                 LET sub == iteritems(e_path, iterstate, filter, env) IN
                 IF sub.status # "ok"
                 THEN [sub EXCEPT !.reads = from.reads \o sub.reads,
                                  !.ioerrs = from.ioerrs + sub.ioerrs]
                 ELSE iteritems_loop_pruning(entries, i + 1, iterstate, filter, env,
                          Done(from.items \o sub.items, from.reads \o sub.reads,
                               from.ioerrs + sub.ioerrs))
             skip == iteritems_loop_pruning(entries, i + 1, iterstate, filter, env, acc)
             take == iteritems_loop_pruning(entries, i + 1, iterstate, filter, env, push)
         IN
         IF filter.kind # "None" /\ matches_filter_panics(e_path, filter)
         THEN Panicked(acc.reads, acc.ioerrs)
         ELSE CASE iterstate = "FileNoRec" ->
                     IF is_file(fs, e_path) /\ filter_pass(e_path, filter)
                     THEN take ELSE skip
                [] iterstate = "FileRec" ->
                     IF is_file(fs, e_path) /\ filter_pass(e_path, filter)
                     THEN take
                     ELSE IF is_dir(fs, e_path) /\ filter_pass(e_path, filter)
                          THEN descend(acc) ELSE skip
                [] iterstate = "DirNoRec" ->
                     IF is_dir(fs, e_path) /\ filter_pass(e_path, filter)
                     THEN take ELSE skip
                [] iterstate = "DirRec" ->
                     IF is_dir(fs, e_path)
                     THEN IF filter_pass(e_path, filter)
                          THEN descend(push) ELSE skip
                     ELSE skip

\* The while loop of iteritems from entry i on, acc being what was
\* gathered so far.
iteritems_loop(entries, i, iterstate, filter, env, acc) ==
    IF i > Len(entries) THEN acc
    ELSE IF ~entries[i].ok THEN Failed("next_entry", acc.reads, acc.ioerrs + 1)
    ELSE LET e_path == entries[i].path
             push == Done(Append(acc.items, e_path), acc.reads, acc.ioerrs)
             descend(from) ==
                 LET sub == iteritems(e_path, iterstate, filter, env) IN
                 IF sub.status # "ok"
                 THEN [sub EXCEPT !.reads = from.reads \o sub.reads,
                                  !.ioerrs = from.ioerrs + sub.ioerrs]
                 ELSE iteritems_loop(entries, i + 1, iterstate, filter, env,
                          Done(from.items \o sub.items, from.reads \o sub.reads,
                               from.ioerrs + sub.ioerrs))
             skip == iteritems_loop(entries, i + 1, iterstate, filter, env, acc)
             take == iteritems_loop(entries, i + 1, iterstate, filter, env, push)
         IN
         IF filter.kind # "None" /\ matches_filter_panics(e_path, filter)
         THEN Panicked(acc.reads, acc.ioerrs)
         ELSE CASE iterstate = "FileNoRec" ->
                     IF is_file(fs, e_path) /\ filter_pass(e_path, filter)
                     THEN take ELSE skip
                [] iterstate = "FileRec" ->
                     IF is_file(fs, e_path) /\ filter_pass(e_path, filter)
                     THEN take
                     ELSE IF is_dir(fs, e_path) THEN descend(acc) ELSE skip
                [] iterstate = "DirNoRec" ->
                     IF is_dir(fs, e_path) /\ filter_pass(e_path, filter)
                     THEN take ELSE skip
                [] iterstate = "DirRec" ->
                     IF is_dir(fs, e_path)
                     THEN IF filter_pass(e_path, filter)
                          THEN descend(push) ELSE descend(acc)
                     ELSE skip

RECURSIVE iteritems_sync(_, _, _, _), iteritems_sync_loop(_, _, _, _, _, _)

\* iteritems_sync: the blocking walker.
iteritems_sync(path, iterstate, filter, env) ==
    LET rd == read_dir(path, env) IN
    IF ~rd.ok THEN Failed("sync iteritems entry call", <<path>>, 1)
    ELSE iteritems_sync_loop(rd.entries, 1, iterstate, filter, env,
                             Done(<<>>, <<path>>, 0))

\* The loop `while let Some(Ok(entry)) = entries.next()`: it ends at the
\* end of the stream and at the first error entry alike.
iteritems_sync_loop(entries, i, iterstate, filter, env, acc) ==
    IF i > Len(entries) THEN acc
    ELSE IF ~entries[i].ok THEN Done(acc.items, acc.reads, acc.ioerrs + 1)
    ELSE LET e_path == entries[i].path
             push == Done(Append(acc.items, e_path), acc.reads, acc.ioerrs)
             descend(from) ==
                 LET sub == iteritems_sync(e_path, iterstate, filter, env) IN
                 IF sub.status # "ok"
                 THEN [sub EXCEPT !.reads = from.reads \o sub.reads,
                                  !.ioerrs = from.ioerrs + sub.ioerrs]
                 ELSE iteritems_sync_loop(entries, i + 1, iterstate, filter, env,
                          Done(from.items \o sub.items, from.reads \o sub.reads,
                               from.ioerrs + sub.ioerrs))
             skip == iteritems_sync_loop(entries, i + 1, iterstate, filter, env, acc)
             take == iteritems_sync_loop(entries, i + 1, iterstate, filter, env, push)
         IN
         IF filter.kind # "None" /\ matches_filter_panics(e_path, filter)
         THEN Panicked(acc.reads, acc.ioerrs)
         ELSE CASE iterstate = "FileNoRec" ->
                     IF is_file(fs, e_path) /\ filter_pass(e_path, filter)
                     THEN take ELSE skip
                [] iterstate = "FileRec" ->
                     IF is_file(fs, e_path) /\ filter_pass(e_path, filter)
                     THEN take
                     ELSE IF is_dir(fs, e_path) THEN descend(acc) ELSE skip
                [] iterstate = "DirNoRec" ->
                     IF is_dir(fs, e_path) /\ filter_pass(e_path, filter)
                     THEN take ELSE skip
                [] iterstate = "DirRec" ->
                     IF is_dir(fs, e_path)
                     THEN IF filter_pass(e_path, filter)
                          THEN descend(push) ELSE descend(acc)
                     ELSE skip

(* ------------------------- listing functions --------------------------- *)

Precondition(msg) == Failed(msg, <<>>, 0)

\* Checked, mutated: both tests are dropped.
Unchecked(path, walk) == walk

\* Checked, mutated: the test that the path is a directory is dropped.
Checked_exists_only(path, walk) ==
    IF ~exists(fs, path) THEN Precondition("path does not exist") ELSE walk

\* The two ensure! lines that open a listing function.
Checked(path, walk) ==
    IF ~exists(fs, path) THEN Precondition("path does not exist")
    ELSE IF ~is_dir(fs, path)
    THEN Precondition("path should be a directory, not a file")
    ELSE walk

\* The one ensure! line that opens the async list_nested_directories.
CheckedExists(path, walk) ==
    IF ~exists(fs, path) THEN Precondition("path does not exist") ELSE walk

\* list_files, mutated: the walk descends into subdirectories.
list_files_descending(path, env) ==
    Checked(path, iteritems(path, "FileRec", NoFilter, env))

list_files(path, env) ==
    Checked(path, iteritems(path, "FileNoRec", NoFilter, env))

list_nested_files(path, env) ==
    Checked(path, iteritems(path, "FileRec", NoFilter, env))

list_files_with_filter(path, pattern, env) ==
    Checked(path, iteritems(path, "FileNoRec", pattern, env))

list_nested_files_with_filter(path, pattern, env) ==
    Checked(path, iteritems(path, "FileRec", pattern, env))

list_directories(path, env) ==
    Checked(path, iteritems(path, "DirNoRec", NoFilter, env))

\* list_nested_directories, mutated: it opens with both ensure! lines.
list_nested_directories_typed(path, env) ==
    Checked(path, iteritems(path, "DirRec", NoFilter, env))

list_nested_directories(path, env) ==
    CheckedExists(path, iteritems(path, "DirRec", NoFilter, env))

list_directories_with_filter(path, filter, env) ==
    Checked(path, iteritems(path, "DirNoRec", filter, env))

list_nested_directories_with_filter(path, filter, env) ==
    Checked(path, iteritems(path, "DirRec", filter, env))

sync_list_files(path, env) ==
    Checked(path, iteritems_sync(path, "FileNoRec", NoFilter, env))

sync_list_nested_files(path, env) ==
    Checked(path, iteritems_sync(path, "FileRec", NoFilter, env))

sync_list_files_with_filter(path, filter, env) ==
    Checked(path, iteritems_sync(path, "FileNoRec", filter, env))

sync_list_nested_files_with_filter(path, filter, env) ==
    Checked(path, iteritems_sync(path, "FileRec", filter, env))

sync_list_directories(path, env) ==
    Checked(path, iteritems_sync(path, "DirNoRec", NoFilter, env))

sync_list_nested_directories(path, env) ==
    Checked(path, iteritems_sync(path, "DirRec", NoFilter, env))

sync_list_directories_with_filter(path, filter, env) ==
    Checked(path, iteritems_sync(path, "DirNoRec", filter, env))

sync_list_nested_directories_with_filter(path, filter, env) ==
    Checked(path, iteritems_sync(path, "DirRec", filter, env))

(* ------------------------------ state ---------------------------------- *)

\* The record of the last call of the library: what was called, with what,
\* and what it returned.
NoCall ==
    [op |-> "none", surface |-> "-", path |-> Root, filter |-> NoFilter,
     names |-> <<>>, start |-> 0, end |-> 0, fill |-> 0,
     status |-> "none", err |-> "none", items |-> <<>>, reads |-> <<>>,
     ioerrs |-> 0, made |-> {}, order |-> "asc",
     name |-> <<>>, ext |-> <<>>, number |-> 0, stamp |-> <<>>, out |-> <<>>,
     arg1 |-> [type |-> "str", bytes |-> <<>>],
     arg2 |-> [type |-> "str", bytes |-> <<>>], found |-> FALSE]

\* The listing calls that run at once, each a future of iteritems that its
\* caller polls.
Tasks == {1, 2}

\* A call that was not made yet. A call in progress holds the locals of the
\* invocations of iteritems that are suspended: for each, from the outermost
\* on, the stream of its directory, how far it was read, and its items; and
\* the directory whose read_dir is awaited, if one is.
NoTask ==
    [phase |-> "idle", iterstate |-> "FileNoRec", path |-> Root,
     filter |-> NoFilter, stack |-> <<>>, opening |-> FALSE, target |-> Root,
     reads |-> <<>>, status |-> "none", err |-> "none", items |-> <<>>,
     met |-> FALSE]

\* A call of ensure_directory that was not made yet. A call in progress
\* holds its path and, once it has seen the path absent, the invocations of
\* create_dir_all that have not returned: for each, from the outermost on,
\* its path and the step it is at.
NoMaker ==
    [phase |-> "idle", path |-> Root, stack |-> <<>>, status |-> "none",
     err |-> "none", absent |-> FALSE]

Init ==
    /\ fs = (Root :> "dir")
    /\ last = NoCall
    /\ calls = [t \in Tasks |-> NoTask]
    /\ makers = [t \in Tasks |-> NoMaker]

\* The bounded disk: at most MaxEntries entries below the root.
Fits(f) == Cardinality(DOMAIN f) <= MaxEntries + 1

(* ------------------------------ actions -------------------------------- *)

\* The caller holds no result it has not taken yet.
Idle == last.op = "none"

\* The caller takes the result of its last call.
TakeResult ==
    /\ ~Idle
    /\ last' = NoCall
    /\ UNCHANGED <<fs, calls, makers>>

\* TempPath::multi_file / new_file: File::create of one file.
CreateFile(p) ==
    /\ Idle
    /\ p # Root
    /\ ResolveErr(fs, p) = "none"
    /\ RealPath(fs, p) = p
    /\ Kind(fs, p) \in {"none", "file"}
    /\ Fits((p :> "file") @@ fs)
    /\ fs' = (p :> "file") @@ fs
    /\ UNCHANGED <<last, calls, makers>>

\* An entry that is neither a file nor a directory appears (a dangling link).
CreateOther(p) ==
    /\ Idle
    /\ p # Root
    /\ ResolveErr(fs, p) = "none"
    /\ RealPath(fs, p) = p
    /\ Kind(fs, p) = "none"
    /\ Fits((p :> "other") @@ fs)
    /\ fs' = (p :> "other") @@ fs
    /\ UNCHANGED <<last, calls, makers>>

\* The places where the environment puts a symbolic link to LinkTarget:
\* beside the target, and inside it, where following the link comes back
\* to the directory that holds it.
LinkPlaces == {<<<<"b">>>>, <<<<"a">>, <<"b">>>>}

\* A symbolic link to LinkTarget appears.
CreateLink(p) ==
    /\ Idle
    /\ ResolveErr(fs, p) = "none"
    /\ RealPath(fs, p) = p
    /\ Kind(fs, p) = "none"
    /\ Fits((p :> "link") @@ fs)
    /\ fs' = (p :> "link") @@ fs
    /\ UNCHANGED <<last, calls, makers>>

\* Drop of a TempPath: remove_dir_all of the path, errors ignored.
RemoveAll(p) ==
    /\ Idle
    /\ p # Root
    /\ p \in DOMAIN fs
    /\ fs' = [q \in DOMAIN fs \ ({p} \cup Below(fs, p)) |-> fs[q]]
    /\ UNCHANGED <<last, calls, makers>>

\* TempPath::new_folder / multi_folder: ensure_directory of one path.
MakeDir(p) ==
    LET r == ensure_directory(fs, p) IN
    /\ Idle
    /\ r.ok
    /\ r.fs # fs
    /\ Fits(r.fs)
    /\ fs' = r.fs
    /\ UNCHANGED <<last, calls, makers>>

\* A creation call returns r.
Created(op, surface, path, names, start, end, fill, r) ==
    /\ Idle
    /\ Fits(r.fs)
    /\ fs' = r.fs
    /\ last' = [NoCall EXCEPT !.op = op, !.surface = surface, !.path = path,
                              !.names = names, !.start = start, !.end = end,
                              !.fill = fill,
                              !.status = IF r.ok THEN "ok" ELSE "err",
                              !.err = r.err,
                              !.made = DOMAIN r.fs \ DOMAIN fs]
    /\ UNCHANGED <<calls, makers>>

EnsureDirectory(p) ==
    Created("ensure_directory", "async", p, <<>>, 0, 0, 0,
            ensure_directory(fs, p))

SyncEnsureDirectory(p) ==
    Created("ensure_directory", "sync", p, <<>>, 0, 0, 0,
            sync_ensure_directory(fs, p))

CreateMultipleDirectories(path, names) ==
    Created("create_multiple_directories", "async", path, names, 0, 0, 0,
            create_multiple_directories(fs, path, names))

SyncCreateMultipleDirectories(path, names) ==
    Created("create_multiple_directories", "sync", path, names, 0, 0, 0,
            sync_create_multiple_directories(fs, path, names))

CreateNumericDirectories(path, start, end, fill) ==
    Created("create_numeric_directories", "async", path, <<>>, start, end, fill,
            create_numeric_directories(fs, path, start, end, fill))

SyncCreateNumericDirectories(path, start, end, fill) ==
    Created("create_numeric_directories", "sync", path, <<>>, start, end, fill,
            sync_create_numeric_directories(fs, path, start, end, fill))

\* The directories a listing call of path may read.
FaultDirs(path) == {q \in DOMAIN fs : fs[q] = "dir" /\ IsPrefix(path, q)}

\* What the environment does to one listing call.
Env(o, on, d, k) == [order |-> o, fault |-> [on |-> on, dir |-> d, at |-> k]]

\* A listing call returns res: the filesystem is only read.
Listed(op, surface, path, filter, env, res) ==
    /\ Idle
    /\ last' = [NoCall EXCEPT !.op = op, !.surface = surface, !.path = path,
                              !.filter = filter, !.status = res.status,
                              !.err = res.err, !.items = res.items,
                              !.reads = res.reads, !.ioerrs = res.ioerrs,
                              !.order = env.order]
    /\ UNCHANGED <<fs, calls, makers>>

ListFiles(path, env) ==
    Listed("list_files", "async", path, NoFilter, env, list_files(path, env))

ListNestedFiles(path, env) ==
    Listed("list_nested_files", "async", path, NoFilter, env,
           list_nested_files(path, env))

ListFilesWithFilter(path, filter, env) ==
    Listed("list_files_with_filter", "async", path, filter, env,
           list_files_with_filter(path, filter, env))

ListNestedFilesWithFilter(path, filter, env) ==
    Listed("list_nested_files_with_filter", "async", path, filter, env,
           list_nested_files_with_filter(path, filter, env))

ListDirectories(path, env) ==
    Listed("list_directories", "async", path, NoFilter, env,
           list_directories(path, env))

ListNestedDirectories(path, env) ==
    Listed("list_nested_directories", "async", path, NoFilter, env,
           list_nested_directories(path, env))

ListDirectoriesWithFilter(path, filter, env) ==
    Listed("list_directories_with_filter", "async", path, filter, env,
           list_directories_with_filter(path, filter, env))

ListNestedDirectoriesWithFilter(path, filter, env) ==
    Listed("list_nested_directories_with_filter", "async", path, filter, env,
           list_nested_directories_with_filter(path, filter, env))

SyncListFiles(path, env) ==
    Listed("list_files", "sync", path, NoFilter, env, sync_list_files(path, env))

SyncListNestedFiles(path, env) ==
    Listed("list_nested_files", "sync", path, NoFilter, env,
           sync_list_nested_files(path, env))

SyncListFilesWithFilter(path, filter, env) ==
    Listed("list_files_with_filter", "sync", path, filter, env,
           sync_list_files_with_filter(path, filter, env))

SyncListNestedFilesWithFilter(path, filter, env) ==
    Listed("list_nested_files_with_filter", "sync", path, filter, env,
           sync_list_nested_files_with_filter(path, filter, env))

SyncListDirectories(path, env) ==
    Listed("list_directories", "sync", path, NoFilter, env,
           sync_list_directories(path, env))

SyncListNestedDirectories(path, env) ==
    Listed("list_nested_directories", "sync", path, NoFilter, env,
           sync_list_nested_directories(path, env))

SyncListDirectoriesWithFilter(path, filter, env) ==
    Listed("list_directories_with_filter", "sync", path, filter, env,
           sync_list_directories_with_filter(path, filter, env))

SyncListNestedDirectoriesWithFilter(path, filter, env) ==
    Listed("list_nested_directories_with_filter", "sync", path, filter, env,
           sync_list_nested_directories_with_filter(path, filter, env))

Environment ==
    \/ \E p \in Paths :
          \/ CreateFile(p)
          \/ CreateOther(p)
          \/ MakeDir(p)
    \/ \E p \in DOMAIN fs : RemoveAll(p)

\* A file left under a name made of digits.
CreateNumberedFile == CreateFile(<<generate_n_digit_name(0, 0, <<>>)>>)

\* The lists of at most n relative paths.
RECURSIVE NameLists(_)
NameLists(n) ==
    IF n = 0 THEN {<<>>}
    ELSE LET shorter == NameLists(n - 1) IN
         shorter \cup
            UNION {{Append(l, d) : d \in RelPaths \ {l[i] : i \in 1..Len(l)}} :
                      l \in {x \in shorter : Len(x) = n - 1}}

\* The roots handed to the bulk creations: the root directory and the
\* paths right below it.
CreateRoots == PathsUpTo(1)

Creation ==
    \/ \E p \in Paths :
          \/ EnsureDirectory(p)
          \/ SyncEnsureDirectory(p)
    \/ \E path \in CreateRoots, names \in NameLists(MaxNames) :
          \/ CreateMultipleDirectories(path, names)
          \/ SyncCreateMultipleDirectories(path, names)
    \/ \E path \in CreateRoots, start \in 0..MaxNum, end \in 0..MaxNum,
          fill \in Fills :
          \/ CreateNumericDirectories(path, start, end, fill)
          \/ SyncCreateNumericDirectories(path, start, end, fill)

\* The sixteen listing functions, called in the environment env.
ListingIn(path, env) ==
    \/ ListFiles(path, env)
    \/ ListNestedFiles(path, env)
    \/ ListDirectories(path, env)
    \/ ListNestedDirectories(path, env)
    \/ SyncListFiles(path, env)
    \/ SyncListNestedFiles(path, env)
    \/ SyncListDirectories(path, env)
    \/ SyncListNestedDirectories(path, env)
    \/ \E filter \in Filters :
          \/ ListFilesWithFilter(path, filter, env)
          \/ ListNestedFilesWithFilter(path, filter, env)
          \/ ListDirectoriesWithFilter(path, filter, env)
          \/ ListNestedDirectoriesWithFilter(path, filter, env)
          \/ SyncListFilesWithFilter(path, filter, env)
          \/ SyncListNestedFilesWithFilter(path, filter, env)
          \/ SyncListDirectoriesWithFilter(path, filter, env)
          \/ SyncListNestedDirectoriesWithFilter(path, filter, env)

\* A listing call without a fault, or with one fault in a directory at or
\* below its root.
Listing ==
    \E path \in Paths, o \in {"asc", "desc"} :
        \/ ListingIn(path, Env(o, FALSE, Root, 0))
        \/ \E d \in FaultDirs(path) :
              \E k \in 0..(Cardinality(Children(fs, d)) + 1) :
                  ListingIn(path, Env(o, TRUE, d, k))

Next == Environment \/ CreateNumberedFile \/ Creation \/ Listing \/ TakeResult

Spec == Init /\ [][Next]_vars

\* The creation functions alone, on the filesystems the environment builds.
NextCreate == Environment \/ CreateNumberedFile \/ Creation \/ TakeResult

SpecCreate == Init /\ [][NextCreate]_vars

\* The listing functions alone, on the filesystems the environment builds.
NextList == Environment \/ Listing \/ TakeResult

SpecList == Init /\ [][NextList]_vars

\* Listing over directories that hold symbolic links.
Links == \E p \in LinkPlaces : CreateLink(p)

NextLinks == Environment \/ Links \/ Listing \/ TakeResult

SpecLinks == Init /\ [][NextLinks]_vars

\* Listing over directories that hold a name that is no text: a file or a
\* directory of that name appears in the root directory, or a directory of
\* that name in the directory /a.
NonTextEntry ==
    \/ CreateFile(<<<<NonText>>>>)
    \/ MakeDir(<<<<NonText>>>>)
    \/ MakeDir(<<<<"a">>, <<NonText>>>>)

NextNonText == Environment \/ NonTextEntry \/ Listing \/ TakeResult

SpecNonText == Init /\ [][NextNonText]_vars

(* ---------------------- naming and path matching ----------------------- *)

\* The largest number and the largest width of generate_n_digit_name.
MaxNumber == 128
MaxFill == 6

pdf == <<"p", "d", "f">>

\* The extensions callers pass: none, "pdf" and ".pdf".
Exts == {<<>>, pdf, <<".">> \o pdf}

\* The names callers pass: none and "test".
BaseNames == {<<>>, <<"t", "e", "s", "t">>}

Named(op, name, ext, number, fill, stamp, out) ==
    /\ Idle
    /\ last' = [NoCall EXCEPT !.op = op, !.surface = "naming", !.name = name,
                             !.ext = ext, !.number = number, !.fill = fill,
                             !.stamp = stamp, !.status = "ok", !.out = out]
    /\ UNCHANGED <<fs, calls, makers>>

GenerateName(name, ext) ==
    Named("generate_name", name, ext, 0, 0, <<>>, generate_name(name, ext))

GenerateTimestampedName(fname, ext, now) ==
    Named("generate_timestamped_name", fname, ext, 0, 0, format(now),
          generate_timestamped_name(fname, ext, now))

GenerateUuid4Name(ext, unique) ==
    Named("generate_uuid4_name", <<>>, ext, 0, 0, unique,
          generate_uuid4_name(ext, unique))

GenerateNDigitName(number, fill, ext) ==
    Named("generate_n_digit_name", <<>>, ext, number, fill, <<>>,
          generate_n_digit_name(number, fill, ext))

Naming ==
    /\ Idle
    /\ \/ \E name \in BaseNames, ext \in Exts : GenerateName(name, ext)
       \/ \E fname \in BaseNames, ext \in Exts, now \in Moments :
             GenerateTimestampedName(fname, ext, now)
       \/ \E ext \in Exts, unique \in Uuids : GenerateUuid4Name(ext, unique)
       \/ \E number \in 0..MaxNumber, fill \in 0..MaxFill, ext \in Exts :
             GenerateNDigitName(number, fill, ext)

\* The longest text passed to path_contains.
MaxText == 3

\* The characters of those texts: a letter, the separator, and bytes that
\* are no text.
TextChars == {"a", "b", "/", NonText}

RECURSIVE TextsOfLen(_)
TextsOfLen(n) ==
    IF n = 0 THEN {<<>>}
    ELSE {Append(t, c) : t \in TextsOfLen(n - 1), c \in TextChars}

TextsUpTo(n) == UNION {TextsOfLen(k) : k \in 0..n}

\* The arguments of path_contains: bytes in one of the four types.
Args(n) ==
    {arg \in [type : ArgTypes, bytes : TextsUpTo(n)] : Holds(arg.type, arg.bytes)}

PathContains(path, pattern) ==
    /\ Idle
    /\ last' = [NoCall EXCEPT !.op = "path_contains", !.surface = "async",
                             !.arg1 = path, !.arg2 = pattern, !.status = "ok",
                             !.found = path_contains_args(path, pattern)]
    /\ UNCHANGED <<fs, calls, makers>>

Matching ==
    /\ Idle
    /\ \E path \in Args(MaxText), pattern \in Args(MaxText - 1) :
          PathContains(path, pattern)

\* The characters of the paths passed to is_subdir: letters, the separator
\* and the dot of the components "." and "..".
SubdirChars == {"a", "b", "/", "."}

RECURSIVE SubdirTextsOfLen(_)
SubdirTextsOfLen(n) ==
    IF n = 0 THEN {<<>>}
    ELSE {Append(t, c) : t \in SubdirTextsOfLen(n - 1), c \in SubdirChars}

SubdirTexts(n) == UNION {SubdirTextsOfLen(k) : k \in 0..n}

IsSubdir(path, dir) ==
    /\ Idle
    /\ last' = [NoCall EXCEPT !.op = "is_subdir", !.surface = "async",
                             !.arg1 = path, !.arg2 = dir, !.status = "ok",
                             !.found = is_subdir(path, dir)]
    /\ UNCHANGED <<fs, calls, makers>>

Subdirs ==
    /\ Idle
    /\ \E path \in SubdirTexts(MaxText + 1), dir \in SubdirTexts(MaxText) :
          IsSubdir([type |-> "str", bytes |-> path], [type |-> "str", bytes |-> dir])

NextPure == Naming \/ Matching \/ Subdirs \/ TakeResult

SpecPure == Init /\ [][NextPure]_vars

(* --------------------------- concurrent calls -------------------------- *)

\* The environment of the calls that run at once: no read fails.
ConcEnv == Env("asc", FALSE, Root, 0)

\* iteritems is called: nothing runs before the future is polled, and the
\* first thing it awaits is read_dir of its path.
spawn(iterstate, path, filter) ==
    [NoTask EXCEPT !.phase = "run", !.iterstate = iterstate, !.path = path,
                   !.filter = filter, !.opening = TRUE, !.target = path]

\* The call ends: Err and the panic drop every suspended invocation.
finish(c, status, err, items) ==
    [c EXCEPT !.phase = "done", !.stack = <<>>, !.opening = FALSE,
              !.status = status, !.err = err, !.items = items]

\* items.extend, mutated: the paths of the nested invocation are put in
\* front of the paths the caller holds.
extend_front(items, nested) == nested \o items

\* items.extend(iteritems(..).await?): the paths the nested invocation
\* returns follow the paths the caller holds.
extend(items, nested) == items \o nested

\* The call c runs from one await to the next: read_dir of the awaited
\* directory, or next_entry of the innermost stream and the match on the
\* entry, or the return of the innermost invocation into its caller.
poll(c) ==
    IF c.opening
    THEN LET rd == read_dir(c.target, ConcEnv)
             read == [c EXCEPT !.reads = Append(c.reads, c.target)]
         IN IF ~rd.ok THEN finish(read, "err", "list items inner call", <<>>)
            ELSE [read EXCEPT !.opening = FALSE,
                              !.stack = Append(c.stack,
                                  [dir |-> c.target, entries |-> rd.entries,
                                   i |-> 1, items |-> <<>>])]
    ELSE LET n == Len(c.stack)
             fr == c.stack[n]
         IN
         IF fr.i > Len(fr.entries)
         THEN IF n = 1 THEN finish(c, "ok", "none", fr.items)
              ELSE [c EXCEPT !.stack =
                       [SubSeq(c.stack, 1, n - 1) EXCEPT
                           ![n - 1].items = extend(@, fr.items)]]
         ELSE IF ~fr.entries[fr.i].ok THEN finish(c, "err", "next_entry", <<>>)
         ELSE LET e_path == fr.entries[fr.i].path
                  skip == [c EXCEPT !.stack[n].i = @ + 1]
                  take == [skip EXCEPT !.stack[n].items = Append(@, e_path)]
                  descend(from) == [from EXCEPT !.opening = TRUE, !.target = e_path]
              IN
              IF c.filter.kind # "None" /\ matches_filter_panics(e_path, c.filter)
              THEN finish(c, "panic", "unwrap on None", <<>>)
              ELSE CASE c.iterstate = "FileNoRec" ->
                          IF is_file(fs, e_path) /\ filter_pass(e_path, c.filter)
                          THEN take ELSE skip
                     [] c.iterstate = "FileRec" ->
                          IF is_file(fs, e_path) /\ filter_pass(e_path, c.filter)
                          THEN take
                          ELSE IF is_dir(fs, e_path) THEN descend(skip) ELSE skip
                     [] c.iterstate = "DirNoRec" ->
                          IF is_dir(fs, e_path) /\ filter_pass(e_path, c.filter)
                          THEN take ELSE skip
                     [] c.iterstate = "DirRec" ->
                          IF is_dir(fs, e_path)
                          THEN IF filter_pass(e_path, c.filter)
                               THEN descend(take) ELSE descend(skip)
                          ELSE skip

\* The roots, the modes and the filters of the calls that run at once.
ConcRoots == {Root}

IterStates == {"FileNoRec", "FileRec", "DirNoRec", "DirRec"}

ConcFilters == {NoFilter, [kind |-> "Raw", pat |-> <<"b">>]}

\* No call is running or holds a result: the tests set up their directories.
Quiet == \A t \in Tasks : calls[t].phase = "idle"

\* The caller creates the future of a listing call.
Spawn(t, iterstate, path, filter) ==
    /\ calls[t].phase = "idle"
    /\ calls' = [calls EXCEPT ![t] = spawn(iterstate, path, filter)]
    /\ UNCHANGED <<fs, last, makers>>

\* Another call is suspended in the middle of its walk.
Busy(t) ==
    \E u \in Tasks \ {t} : calls[u].phase = "run" /\ calls[u].reads # <<>>

\* Poll, mutated: the items the call pushes also land in the innermost
\* vector of the other calls that are running.
PollShared(t) ==
    /\ calls[t].phase = "run"
    /\ calls' = [u \in Tasks |->
                   IF u = t THEN [poll(calls[t]) EXCEPT !.met = @ \/ Busy(t)]
                   ELSE IF calls[u].stack # <<>> /\ poll(calls[t]).stack # <<>>
                   THEN [calls[u] EXCEPT !.stack[Len(calls[u].stack)].items =
                            @ \o poll(calls[t]).stack[Len(poll(calls[t]).stack)].items]
                   ELSE calls[u]]
    /\ UNCHANGED <<fs, last, makers>>

\* Poll, mutated: a call whose innermost directory stream has ended is not
\* run again, the invocation that read it does not return.
PollStuck(t) ==
    LET c == calls[t]
        ended == /\ ~c.opening
                 /\ c.stack[Len(c.stack)].i > Len(c.stack[Len(c.stack)].entries)
    IN /\ c.phase = "run"
       /\ calls' = [calls EXCEPT ![t] = IF ended THEN c ELSE poll(c)]
       /\ UNCHANGED <<fs, last, makers>>

\* The executor polls the call t, which runs to its next await. (met notes
\* that it ran while another call was suspended in mid-walk.)
Poll(t) ==
    /\ calls[t].phase = "run"
    /\ calls' = [calls EXCEPT ![t] = [poll(calls[t]) EXCEPT !.met = @ \/ Busy(t)]]
    /\ UNCHANGED <<fs, last, makers>>

\* The caller takes the result of the call t.
Join(t) ==
    /\ calls[t].phase = "done"
    /\ calls' = [calls EXCEPT ![t] = NoTask]
    /\ UNCHANGED <<fs, last, makers>>

Concurrent ==
    \E t \in Tasks :
       \/ \E iterstate \in IterStates, path \in ConcRoots, filter \in ConcFilters :
             Spawn(t, iterstate, path, filter)
       \/ Poll(t)
       \/ Join(t)

\* The tests set up files and folders while no call runs.
Setup == \E p \in Paths : CreateFile(p) \/ MakeDir(p)

NextConcurrent == (Quiet /\ Setup) \/ Concurrent

SpecConcurrent == Init /\ [][NextConcurrent]_vars

\* One listing call, run to its end over a tree that may hold symbolic
\* links to a directory, set up while no call runs. The caller awaits the
\* call: the executor polls it as long as it is not done.
Walker == 1

Walking ==
    \/ \E iterstate \in IterStates, path \in ConcRoots, filter \in ConcFilters :
          Spawn(Walker, iterstate, path, filter)
    \/ Poll(Walker)
    \/ Join(Walker)

NextWalk == (Quiet /\ (Setup \/ Links)) \/ Walking

SpecWalk == Init /\ [][NextWalk]_vars /\ WF_vars(Poll(Walker))

\* Drop of a TempPath: one of the paths of the tree is removed.
Clearing == \E p \in DOMAIN fs : RemoveAll(p)

\* One listing call over a tree that holds dangling links and from which
\* entries are removed while the call runs.
Dangling == \E p \in Paths : CreateOther(p)

Vanish == calls[Walker].phase = "run" /\ Clearing

NextVanish == (Quiet /\ (Setup \/ Dangling)) \/ Walking \/ Vanish

SpecVanish == Init /\ [][NextVanish]_vars

(* ------------------- concurrent calls of ensure_directory -------------- *)

\* ensure_directory returns.
ensured(m, status, err) ==
    [m EXCEPT !.phase = "done", !.stack = <<>>, !.status = status, !.err = err]

\* The innermost create_dir_all of m returns Ok: its caller, if it has one,
\* goes on to its second mkdir; the outermost returns to ensure_directory.
created(m) ==
    IF Len(m.stack) = 1 THEN ensured(m, "ok", "none")
    ELSE [m EXCEPT !.stack = SubSeq(m.stack, 1, Len(m.stack) - 1)]

\* The call m of ensure_directory runs up to its next system call, on the
\* filesystem f. First the existence test; then create_dir_all, whose every
\* mkdir and every is_dir is one system call: mkdir of the path, on NotFound
\* create_dir_all of the parent and mkdir again, and on another error Ok if
\* the path is a directory by then.
ensure_step(m, f) ==
    IF m.phase = "check"
    THEN IF exists(f, m.path)
         THEN [maker |-> ensured(m, "ok", "none"), fs |-> f]
         ELSE [maker |-> [m EXCEPT !.phase = "create", !.absent = TRUE,
                                   !.stack = <<[path |-> m.path, at |-> "mkdir"]>>],
               fs |-> f]
    ELSE LET n == Len(m.stack)
             fr == m.stack[n]
             failed == ensured(m, "err", "unable to create directory")
         IN
         IF fr.at \in {"mkdir", "mkdir again"}
         THEN LET r == create_dir(f, fr.path) IN
              IF r.ok THEN [maker |-> created(m), fs |-> r.fs]
              ELSE IF r.err = "NotFound" /\ fr.at = "mkdir"
              THEN IF fr.path = Root THEN [maker |-> failed, fs |-> f]
                   ELSE [maker |-> [m EXCEPT !.stack =
                                      Append([m.stack EXCEPT ![n].at = "mkdir again"],
                                             [path |-> parent(fr.path), at |-> "mkdir"])],
                         fs |-> f]
              ELSE [maker |-> [m EXCEPT !.stack[n].at = "is_dir"], fs |-> f]
         ELSE IF is_dir(f, fr.path) THEN [maker |-> created(m), fs |-> f]
              ELSE [maker |-> failed, fs |-> f]

\* No call of ensure_directory is running or holds a result.
Still == \A t \in Tasks : makers[t].phase = "idle"

\* A caller calls ensure_directory(p).
Ensure(t, p) ==
    /\ makers[t].phase = "idle"
    /\ makers' = [makers EXCEPT ![t] = [NoMaker EXCEPT !.phase = "check", !.path = p]]
    /\ UNCHANGED <<fs, last, calls>>

\* The call t runs up to its next system call.
EnsureRun(t) ==
    LET r == ensure_step(makers[t], fs) IN
    /\ makers[t].phase \in {"check", "create"}
    /\ makers' = [makers EXCEPT ![t] = r.maker]
    /\ fs' = r.fs
    /\ UNCHANGED <<last, calls>>

\* The caller takes the result of the call t.
Ensured(t) ==
    /\ makers[t].phase = "done"
    /\ makers' = [makers EXCEPT ![t] = NoMaker]
    /\ UNCHANGED <<fs, last, calls>>

Ensuring ==
    \E t \in Tasks :
       \/ \E p \in Paths \ {Root} : Ensure(t, p)
       \/ EnsureRun(t)
       \/ Ensured(t)

NextEnsure == (Still /\ (Setup \/ Clearing)) \/ Ensuring

SpecEnsure == Init /\ [][NextEnsure]_vars

(* ------------------------------- claims -------------------------------- *)

ListOps ==
    {"list_files", "list_nested_files", "list_files_with_filter",
     "list_nested_files_with_filter", "list_directories",
     "list_nested_directories", "list_directories_with_filter",
     "list_nested_directories_with_filter"}

\* The paths a call returned, as a set.
ItemSet == {last.items[i] : i \in 1..Len(last.items)}

OfKind(S, k) == {p \in S : fs[p] = k}

\* The last call was the async function op and returned Ok.
AsyncOk(op) == last.op = op /\ last.surface = "async" /\ last.status = "ok"

\* The last call was the async function op, of a directory, and the
\* environment failed none of its reads.
AsyncClean(op) ==
    /\ last.op = op
    /\ last.surface = "async"
    /\ Kind(fs, last.path) = "dir"
    /\ last.ioerrs = 0

\* C1: the async list_files of a directory returns exactly its direct
\* children that are files and list_directories exactly its direct children
\* that are directories, as sets: nothing from below a subdirectory, nothing
\* of another kind.
C1_NonRecursiveListing ==
    /\ AsyncClean("list_files") => last.status = "ok"
    /\ AsyncClean("list_directories") => last.status = "ok"
    /\ AsyncOk("list_files") => ItemSet = OfKind(Children(fs, last.path), "file")
    /\ AsyncOk("list_directories") => ItemSet = OfKind(Children(fs, last.path), "dir")

\* list_files returned the one file of a directory that also holds a
\* subdirectory with an entry of its own.
C1_Witness ==
    /\ AsyncOk("list_files")
    /\ Len(last.items) = 1
    /\ \E d \in OfKind(Children(fs, last.path), "dir") : Children(fs, d) # {}

\* C2: the async list_nested_files of a directory returns exactly the files
\* at any depth below it, and no directory.
C2_NestedFiles ==
    /\ AsyncClean("list_nested_files") => last.status = "ok"
    /\ AsyncOk("list_nested_files") =>
          /\ ItemSet = OfKind(Below(fs, last.path), "file")
          /\ \A p \in ItemSet : Kind(fs, p) # "dir"

\* list_nested_files returned a file of the root directory and a file two
\* levels down, past a directory.
C2_Witness ==
    /\ AsyncOk("list_nested_files")
    /\ \E p \in ItemSet : Len(p) = Len(last.path) + 1
    /\ \E p \in ItemSet : Len(p) = Len(last.path) + 2
    /\ OfKind(Below(fs, last.path), "dir") # {}

\* C3: the async list_nested_directories of a directory returns exactly the
\* directories at any depth strictly below it, each once, never the root.
C3_NestedDirectories ==
    /\ AsyncClean("list_nested_directories") => last.status = "ok"
    /\ AsyncOk("list_nested_directories") =>
          /\ ItemSet = OfKind(Below(fs, last.path), "dir")
          /\ last.path \notin ItemSet
          /\ Len(last.items) = Cardinality(OfKind(Below(fs, last.path), "dir"))

\* list_nested_directories returned a directory and a directory inside it.
C3_Witness ==
    /\ AsyncOk("list_nested_directories")
    /\ \E p \in ItemSet : Len(p) = Len(last.path) + 1
    /\ \E p \in ItemSet : Len(p) = Len(last.path) + 2

\* C4: every listing function, sync or async, filtered or not, fails with
\* "path does not exist" on a root that does not exist, before any read_dir.
C4_MissingRoot ==
    (last.op \in ListOps /\ Kind(fs, last.path) = "none") =>
        /\ last.status = "err"
        /\ last.err = "path does not exist"
        /\ last.reads = <<>>

\* A recursive filtered sync listing was called on a missing path.
C4_Witness ==
    /\ last.op = "list_nested_directories_with_filter"
    /\ last.surface = "sync"
    /\ Kind(fs, last.path) = "none"
    /\ last.status = "err"

\* C5: each of the eight async listing functions returns an error when its
\* root is a regular file.
C5_FileRoot ==
    (last.op \in ListOps /\ last.surface = "async"
        /\ Kind(fs, last.path) = "file") => last.status = "err"

\* The async list_nested_directories, which has no is_dir test, failed on a
\* regular file, in its directory read.
C5_Witness ==
    /\ last.op = "list_nested_directories"
    /\ last.surface = "async"
    /\ Kind(fs, last.path) = "file"
    /\ last.status = "err"
    /\ last.reads = <<last.path>>

\* ensure_directory of the surface of the last call.
EnsureAgain(f, p) ==
    IF last.surface = "sync" THEN sync_ensure_directory(f, p)
    ELSE ensure_directory(f, p)

\* C6: after an ensure_directory that succeeded, a second call on the same
\* path succeeds and leaves the filesystem as the first call left it.
C6_EnsureIdempotent ==
    (last.op = "ensure_directory" /\ last.status = "ok") =>
        /\ EnsureAgain(fs, last.path).ok
        /\ EnsureAgain(fs, last.path).fs = fs
        /\ last.path \in DOMAIN fs

\* An ensure_directory created its path.
C6_Witness ==
    /\ last.op = "ensure_directory"
    /\ last.status = "ok"
    /\ last.path \in last.made

EnsureStep ==
    /\ Idle
    /\ last'.op = "ensure_directory"
    /\ last'.status = "ok"
    /\ ~exists(fs, last'.path)

\* C7: when ensure_directory succeeds on a path that did not exist, the
\* path and all its ancestors are directories afterwards, and the call
\* created the path and its missing ancestors and nothing else.
C7_EnsureCreatesAncestors ==
    [][EnsureStep =>
         /\ \A a \in Ancestors(last'.path) \cup {last'.path} : Kind(fs', a) = "dir"
         /\ DOMAIN fs' \ DOMAIN fs =
              {a \in Ancestors(last'.path) \cup {last'.path} : a \notin DOMAIN fs}
         /\ \A q \in DOMAIN fs : fs'[q] = fs[q]]_vars

\* An ensure_directory created its path and a missing ancestor of it.
C7_Witness ==
    /\ last.op = "ensure_directory"
    /\ last.status = "ok"
    /\ last.path \in last.made
    /\ parent(last.path) \in last.made

\* The path create_numeric_directories makes for the number i.
NumericTarget(i) ==
    join(last.path, <<generate_n_digit_name(i, last.fill, <<>>)>>)

NumericTargets == {NumericTarget(i) : i \in last.start..(last.end - 1)}

NumericOk == last.op = "create_numeric_directories" /\ last.status = "ok"

\* C8, as the claim states it: after a successful
\* create_numeric_directories each number of [start, end) has its directory
\* under root, none was made for end, and the call created end - start.
C8_AsClaimed ==
    NumericOk =>
        /\ \A t \in NumericTargets : Kind(fs, t) = "dir"
        /\ NumericTarget(last.end) \notin last.made
        /\ last.start < last.end =>
              Cardinality(last.made \cap NumericTargets) = last.end - last.start

\* C8, amended: after a successful create_numeric_directories each number of
\* [start, end) has an entry under root: a directory the call created, or
\* what was there under that name before the call, a regular file included.
\* The call creates nothing else but root and its missing ancestors, none for
\* end, and end - start less the names that existed before in all.
C8_NumericDirectories ==
    NumericOk =>
        /\ \A t \in NumericTargets :
              /\ exists(fs, t)
              /\ t \in last.made => fs[t] = "dir"
        /\ last.made \subseteq
              NumericTargets \cup {last.path} \cup Ancestors(last.path)
        /\ NumericTarget(last.end) \notin last.made
        /\ last.start <= last.end =>
              Cardinality(last.made \cap NumericTargets) =
                 (last.end - last.start) - Cardinality(NumericTargets \ last.made)
        /\ last.start >= last.end => last.made = {}

\* A create_numeric_directories of two numbers succeeded: it created the
\* directory of one and left the regular file that had the name of the other.
C8_Witness ==
    /\ NumericOk
    /\ last.end - last.start = 2
    /\ Cardinality(last.made \cap NumericTargets) = 1
    /\ \E t \in NumericTargets \ last.made : fs[t] = "file"

\* The path create_multiple_directories hands to ensure_directory for its
\* i-th name, and that path with its ancestors.
MultipleTarget(i) == join(last.path, last.names[i])

MultipleChain(i) == Ancestors(MultipleTarget(i)) \cup {MultipleTarget(i)}

MultipleErr == last.op = "create_multiple_directories" /\ last.status = "err"

\* C9: a create_multiple_directories that fails failed at one name, the
\* first whose ensure_directory fails: it returns that error, the paths of
\* the names before it exist, and whatever the call created was created for
\* those names, nothing for the failing name or a later one.
C9_StopsAtFirstFailure ==
    MultipleErr =>
        /\ last.err = "unable to create directory"
        /\ \E k \in 1..Len(last.names) :
              /\ \A j \in 1..(k - 1) : exists(fs, MultipleTarget(j))
              /\ ~exists(fs, MultipleTarget(k))
              /\ last.made \subseteq UNION {MultipleChain(j) : j \in 1..(k - 1)}
              /\ \A p \in last.made : fs[p] = "dir"

\* A create_multiple_directories failed at its second name and the
\* directory it created for the first is there.
C9_Witness ==
    /\ MultipleErr
    /\ Len(last.names) = 2
    /\ MultipleTarget(1) \in last.made
    /\ Kind(fs, MultipleTarget(1)) = "dir"
    /\ ~exists(fs, MultipleTarget(2))

\* C10, as the claim states it: a listing call that met an I/O error, in a
\* directory read or in an entry of one, returns an error, on the async and
\* on the sync surface.
C10_AsClaimed ==
    (last.op \in ListOps /\ last.ioerrs > 0) => last.status = "err"

\* A sync listing returned Ok with the paths it had gathered before an entry
\* of the directory failed to enumerate.
C10_Witness ==
    /\ last.op \in ListOps
    /\ last.surface = "sync"
    /\ last.ioerrs > 0
    /\ last.status = "ok"
    /\ last.items # <<>>
    /\ Len(last.items) < Cardinality(OfKind(Children(fs, last.path), "file"))

\* The outcome of a listing call as its caller tells it apart: the paths in
\* their order, a precondition error, an I/O error, or a panic.
PreconditionErrs ==
    {"path does not exist", "path should be a directory, not a file"}

Outcome(res) ==
    CASE res.status = "ok"    -> <<"ok", res.items>>
      [] res.status = "panic" -> <<"panic", <<>>>>
      [] res.err \in PreconditionErrs -> <<"precondition error", <<>>>>
      [] OTHER -> <<"I/O error", <<>>>>

\* The environments in which no read fails.
Orders == {"asc", "desc"}

Calm(o) == Env(o, FALSE, Root, 0)

\* The sync and the async function of each name agree on path, unfiltered
\* and with every filter, in the enumeration order o.
SameOutcomes(path, o) ==
    /\ Outcome(sync_list_files(path, Calm(o))) = Outcome(list_files(path, Calm(o)))
    /\ Outcome(sync_list_nested_files(path, Calm(o)))
          = Outcome(list_nested_files(path, Calm(o)))
    /\ Outcome(sync_list_directories(path, Calm(o)))
          = Outcome(list_directories(path, Calm(o)))
    /\ Outcome(sync_list_nested_directories(path, Calm(o)))
          = Outcome(list_nested_directories(path, Calm(o)))
    /\ \A f \in Filters :
          /\ Outcome(sync_list_files_with_filter(path, f, Calm(o)))
                = Outcome(list_files_with_filter(path, f, Calm(o)))
          /\ Outcome(sync_list_nested_files_with_filter(path, f, Calm(o)))
                = Outcome(list_nested_files_with_filter(path, f, Calm(o)))
          /\ Outcome(sync_list_directories_with_filter(path, f, Calm(o)))
                = Outcome(list_directories_with_filter(path, f, Calm(o)))
          /\ Outcome(sync_list_nested_directories_with_filter(path, f, Calm(o)))
                = Outcome(list_nested_directories_with_filter(path, f, Calm(o)))

\* C11, as the claim states it: in every filesystem state, on every root,
\* the sync and the async listing function of the same name return the same
\* paths or an error of the same kind. (No read fails here: the environment
\* only chooses the order of enumeration, the same for both.)
C11_AsClaimed ==
    Idle => \A path \in Paths, o \in Orders : SameOutcomes(path, o)

\* The sync list_nested_directories refused a regular file as its root with
\* the precondition error, where the async function of that name fails in
\* its directory read.
C11_Witness ==
    /\ last.op = "list_nested_directories"
    /\ last.surface = "sync"
    /\ Kind(fs, last.path) = "file"
    /\ last.err = "path should be a directory, not a file"
    /\ \A o \in Orders :
          /\ list_nested_directories(last.path, Calm(o)).err = "list items inner call"
          /\ Outcome(list_nested_directories(last.path, Calm(o))) # Outcome(last)

\* pat occurs in t, character by character.
Occurs(pat, t) ==
    \E i \in 1..(Len(t) + 1 - Len(pat)) : \A j \in 1..Len(pat) : t[i + j - 1] = pat[j]

\* The last call was the async function op with a Raw filter and returned Ok.
RawOk(op) == AsyncOk(op) /\ last.filter.kind = "Raw"

\* C12, as the claim states it: with Raw(s), list_files_with_filter returns
\* exactly the files directly in D whose file name contains s, and
\* list_directories_with_filter the directories, whatever D is.
C12_AsClaimed ==
    /\ RawOk("list_files_with_filter") =>
          ItemSet = {p \in OfKind(Children(fs, last.path), "file") :
                        Occurs(last.filter.pat, Last(p))}
    /\ RawOk("list_directories_with_filter") =>
          ItemSet = {p \in OfKind(Children(fs, last.path), "dir") :
                        Occurs(last.filter.pat, Last(p))}

\* C12, amended: with Raw(s), list_files_with_filter returns exactly the
\* files directly in D whose whole path, the path of D included, contains s
\* as text, and list_directories_with_filter the directories likewise: an
\* entry whose name lacks s is returned when s occurs in the path of D.
C12_RawFilterOnPathText ==
    /\ RawOk("list_files_with_filter") =>
          ItemSet = {p \in OfKind(Children(fs, last.path), "file") :
                        IsText(PathText(p)) /\ Occurs(last.filter.pat, PathText(p))}
    /\ RawOk("list_directories_with_filter") =>
          ItemSet = {p \in OfKind(Children(fs, last.path), "dir") :
                        IsText(PathText(p)) /\ Occurs(last.filter.pat, PathText(p))}
    /\ (AsyncClean("list_files_with_filter") /\ last.filter.kind = "Raw") =>
          last.status = "ok"
    /\ (AsyncClean("list_directories_with_filter") /\ last.filter.kind = "Raw") =>
          last.status = "ok"

\* list_files_with_filter returned a file whose name lacks the substring,
\* which the path of the root has, and left no file of the root out.
C12_Witness ==
    /\ RawOk("list_files_with_filter")
    /\ Occurs(last.filter.pat, PathText(last.path))
    /\ \E p \in ItemSet : ~Occurs(last.filter.pat, Last(p))
    /\ \E p \in ItemSet : Occurs(last.filter.pat, Last(p))

\* A path passes a filter: the text of the filter occurs in the text of the
\* path (a Raw or Path filter only when both are text).
Passes(p, f) ==
    CASE f.kind = "None"  -> TRUE
      [] f.kind = "Regex" -> Occurs(f.pat, PathText(p))
      [] OTHER -> IsText(PathText(p)) /\ IsText(f.pat) /\ Occurs(f.pat, PathText(p))

PassesLast(p) == Passes(p, last.filter)

\* The directories a recursive walk of the root of the last call reads.
AllReads == {last.path} \cup OfKind(Below(fs, last.path), "dir")

ReadSet == {last.reads[i] : i \in 1..Len(last.reads)}

\* C13: list_nested_directories_with_filter returns the paths of
\* list_nested_directories that pass the filter, in the same order: every
\* directory below the root is read, whether it passes the filter or not.
C13_FilterNeverPrunesDirectories ==
    AsyncOk("list_nested_directories_with_filter") =>
        LET u == list_nested_directories(last.path, Calm(last.order)) IN
        /\ u.status = "ok"
        /\ last.items = SelectSeq(u.items, PassesLast)
        /\ ItemSet = {p \in OfKind(Below(fs, last.path), "dir") : PassesLast(p)}
        /\ ReadSet = AllReads
        /\ last.reads = u.reads

\* A directory that passes the filter was returned from inside a directory
\* that does not pass it.
C13_Witness ==
    /\ AsyncOk("list_nested_directories_with_filter")
    /\ \E p \in ItemSet :
          /\ parent(p) # last.path
          /\ ~PassesLast(parent(p))
          /\ parent(p) \notin ItemSet

\* C14: list_nested_files_with_filter returns the paths of list_nested_files
\* that pass the filter, in the same order: no directory is returned, though
\* its path pass the filter, and every directory below the root is read,
\* whether it passes the filter or not.
C14_FilterNeverPrunesFiles ==
    AsyncOk("list_nested_files_with_filter") =>
        LET u == list_nested_files(last.path, Calm(last.order)) IN
        /\ u.status = "ok"
        /\ last.items = SelectSeq(u.items, PassesLast)
        /\ ItemSet = {p \in OfKind(Below(fs, last.path), "file") : PassesLast(p)}
        /\ \A p \in ItemSet : Kind(fs, p) # "dir"
        /\ ReadSet = AllReads
        /\ last.reads = u.reads

\* A file that passes the filter was returned from inside a directory that
\* does not pass it, and a directory that passes it was left out.
C14_Witness ==
    /\ AsyncOk("list_nested_files_with_filter")
    /\ \E p \in ItemSet : parent(p) # last.path /\ ~PassesLast(parent(p))
    /\ \E d \in OfKind(Below(fs, last.path), "dir") : PassesLast(d) /\ d \notin ItemSet

\* No element of the sequence occurs twice in it.
Distinct(q) == \A i, j \in 1..Len(q) : i # j => q[i] # q[j]

\* The filesystem entries the paths of q name: for each path the entry of
\* its last name in the directory that the names before it lead to.
RealOf(q) == [i \in 1..Len(q) |-> RealPath(fs, q[i])]

\* The directories the paths of q lead to, links followed.
DirsOf(q) == [i \in 1..Len(q) |-> stat(fs, q[i]).path]

\* No symbolic link lies in the directory it points to: no walk comes back
\* to a directory it has left.
NoLinkCycle == \A p \in DOMAIN fs : fs[p] = "link" => ~IsPrefix(LinkTarget, p)

ListedOk == last.op \in ListOps /\ last.status = "ok"

\* C15, as the claim states it: where no symbolic link closes a cycle, a
\* listing call visits each filesystem entry at most once, so that no entry
\* is read twice and none is returned twice.
C15_AsClaimed ==
    (ListedOk /\ NoLinkCycle) =>
        /\ Distinct(last.items)
        /\ Distinct(RealOf(last.items))
        /\ Distinct(DirsOf(last.reads))

\* C15, amended: no path occurs twice in the result of a listing call and
\* no path is read twice, with or without symbolic links; in a tree that
\* holds no symbolic link each entry is visited at most once.
C15_NoDuplicatePath ==
    ListedOk =>
        /\ Distinct(last.items)
        /\ Distinct(last.reads)
        /\ (\A p \in DOMAIN fs : fs[p] # "link") =>
              /\ RealOf(last.items) = last.items
              /\ RealOf(last.reads) = last.reads

\* A recursive listing went through a symbolic link to a directory beside
\* it: it read that directory twice and returned one entry of it under two
\* paths.
C15_Witness ==
    /\ ListedOk
    /\ NoLinkCycle
    /\ ~Distinct(DirsOf(last.reads))
    /\ \E i, j \in 1..Len(last.items) :
          /\ last.items[i] # last.items[j]
          /\ RealOf(last.items)[i] = RealOf(last.items)[j]

\* C16, as the claim states it: a listing call with a filter never panics
\* over a path that is no text and never returns such a path, which is a
\* non-match of a Raw, of a Path and of a Regex filter.
C16_AsClaimed ==
    (last.op \in ListOps /\ last.filter.kind # "None") =>
        /\ last.status # "panic"
        /\ \A p \in ItemSet : IsText(PathText(p))

\* A listing call with a Regex filter panicked in a directory that holds a
\* name that is no text, where the same call with no filter returns.
C16_Witness ==
    /\ last.op = "list_files_with_filter"
    /\ last.surface = "async"
    /\ last.filter.kind = "Regex"
    /\ last.status = "panic"
    /\ \E p \in Children(fs, last.path) : ~IsText(PathText(p))
    /\ list_files(last.path, Calm(last.order)).status = "ok"

\* What the call c returns when it runs alone, from its start to its end.
Alone(c) == iteritems(c.path, c.iterstate, c.filter, ConcEnv)

\* C17: a listing call that ran while other calls ran, interleaved with them
\* in any way at its awaits, over a filesystem nobody modified, returns what
\* it returns when run alone, and read the directories it reads alone.
C17_ConcurrentCallsIndependent ==
    \A t \in Tasks :
        calls[t].phase = "done" =>
            /\ calls[t].status = Alone(calls[t]).status
            /\ calls[t].err = Alone(calls[t]).err
            /\ calls[t].items = Alone(calls[t]).items
            /\ calls[t].reads = Alone(calls[t]).reads

\* Two recursive calls have returned their paths, each after running while
\* the other was suspended in the middle of its walk.
C17_Witness ==
    /\ \A t \in Tasks :
          /\ calls[t].phase = "done"
          /\ calls[t].met
          /\ calls[t].status = "ok"
          /\ Len(calls[t].reads) >= 2
          /\ calls[t].items # <<>>
    /\ calls[1].iterstate # calls[2].iterstate

\* The last call was the naming function op.
NamedBy(op) == last.op = op /\ last.surface = "naming"

\* The number a text of decimal digits writes, -1 if a character is no digit.
RECURSIVE Value(_)
Value(t) ==
    IF t = <<>> THEN 0
    ELSE LET c == t[Len(t)]
             rest == Value(SubSeq(t, 1, Len(t) - 1))
         IN IF rest < 0 \/ ~(\E d \in 0..9 : Digit(d) = c) THEN -1
            ELSE 10 * rest + (CHOOSE d \in 0..9 : Digit(d) = c)

\* How many decimal digits the number n has.
NumDigits(n) == CHOOSE k \in 1..20 : n < 10^k /\ (k = 1 \/ n >= 10^(k - 1))

Larger(a, b) == IF a >= b THEN a ELSE b

\* The part of the name that stands for the extension, as the claims word it.
DotExt(ext) == IF ext = <<>> THEN <<>> ELSE <<".">> \o ext

\* C18: generate_n_digit_name(number, fill, ext) returns the decimal digits
\* of number with zeros in front up to the width max(fill, number of digits),
\* no digit cut, followed by "." and ext when ext is not empty;
\* (5, 4, "pdf") gives 0005.pdf and (55, 6, "pdf") gives 000055.pdf.
C18_NDigitNamePadsNeverCuts ==
    NamedBy("generate_n_digit_name") =>
        LET width == Larger(last.fill, NumDigits(last.number))
            tail == DotExt(last.ext)
        IN /\ Len(last.out) = width + Len(tail)
           /\ Value(SubSeq(last.out, 1, width)) = last.number
           /\ SubSeq(last.out, width + 1, Len(last.out)) = tail
           /\ (last.number = 5 /\ last.fill = 4 /\ last.ext = pdf
                 => last.out = <<"0", "0", "0", "5", ".">> \o pdf)
           /\ (last.number = 55 /\ last.fill = 6 /\ last.ext = pdf
                 => last.out = <<"0", "0", "0", "0", "5", "5", ".">> \o pdf)

\* A number of three digits was written with the width two asked for, whole
\* and with its extension.
C18_Witness ==
    /\ NamedBy("generate_n_digit_name")
    /\ last.number = 128
    /\ last.fill = 2
    /\ last.ext = pdf
    /\ last.out = <<"1", "2", "8", ".">> \o pdf

NamingOps ==
    {"generate_name", "generate_timestamped_name", "generate_uuid4_name",
     "generate_n_digit_name"}

\* The part of a name in front of its extension, from the arguments of the
\* last call and the time or identifier it drew.
Stem ==
    CASE last.op = "generate_name" -> last.name
      [] last.op = "generate_timestamped_name" ->
            IF last.name = <<>> THEN last.stamp ELSE last.name \o <<"_">> \o last.stamp
      [] last.op = "generate_uuid4_name" -> last.stamp
      [] OTHER -> ZeroPad(Digits(last.number), last.fill)

\* The extension text without the dot a caller may have put in front.
Bare(ext) == IF ext # <<>> /\ Head(ext) = "." THEN Tail(ext) ELSE ext

\* C19: every naming function appends a normalized extension: nothing for
\* an empty ext, and otherwise exactly one "." followed by the extension
\* text, whether the caller passed ext without a leading dot or with one.
C19_AsClaimed ==
    (last.surface = "naming" /\ last.op \in NamingOps) =>
        last.out = Stem \o (IF last.ext = <<>> THEN <<>> ELSE <<".">> \o Bare(last.ext))

\* generate_timestamped_name("test", ".pdf") returned a name that ends with
\* two dots in front of pdf.
C19_Witness ==
    /\ NamedBy("generate_timestamped_name")
    /\ last.name = <<"t", "e", "s", "t">>
    /\ last.ext = <<".">> \o pdf
    /\ last.out = last.name \o <<"_">> \o last.stamp \o <<".", ".">> \o pdf

\* Every byte of t is part of a valid UTF-8 text.
Converts(t) == ~(\E i \in 1..Len(t) : t[i] = NonText)

\* C20: path_contains(path, pattern) is true exactly when both arguments
\* convert to text and the text of pattern is a contiguous part of the text
\* of path; it returns false, and no error, when one of them does not
\* convert; and the result is the same whichever of str, Path, PathBuf and
\* String each argument is passed as.
C20_PathContainsIsSubstring ==
    last.op = "path_contains" =>
        LET t == last.arg1.bytes
            pat == last.arg2.bytes
        IN /\ last.status = "ok"
           /\ last.found = (Converts(t) /\ Converts(pat) /\ Occurs(pat, t))
           /\ \A type1, type2 \in ArgTypes :
                 (Holds(type1, t) /\ Holds(type2, pat)) =>
                    path_contains_args([type |-> type1, bytes |-> t],
                                       [type |-> type2, bytes |-> pat]) = last.found

\* A pattern passed as a PathBuf was found in the middle of a path passed as
\* a str.
C20_Witness ==
    /\ last.op = "path_contains"
    /\ last.arg1 = [type |-> "str", bytes |-> <<"a", "/", "b">>]
    /\ last.arg2 = [type |-> "PathBuf", bytes |-> <<"/", "b">>]
    /\ last.found

\* The part of t from its i-th to its j-th character is one whole piece of
\* t: it has no separator in it and a separator or an end of t on each side.
WholePiece(t, i, j) ==
    /\ \A k \in i..j : t[k] # "/"
    /\ (i = 1 \/ t[i - 1] = "/")
    /\ (j = Len(t) \/ t[j + 1] = "/")

\* dir is a normal component of the path text t.
NormalComponent(t, dir) ==
    /\ dir \notin {<<>>, <<".">>, <<".", ".">>}
    /\ \E i \in 1..Len(t) : \E j \in i..Len(t) :
          WholePiece(t, i, j) /\ SubSeq(t, i, j) = dir

\* C21: is_subdir(path, dir) is true exactly when a normal component of
\* path (not the root, not "..", not ".") equals the whole text of dir; so
\* it is true when only the last component matches, and false for every dir
\* of more than one component, a real ancestor segment of path included.
C21_SubdirIsComponentEquality ==
    last.op = "is_subdir" =>
        LET t == last.arg1.bytes
            dir == last.arg2.bytes
        IN /\ last.found = NormalComponent(t, dir)
           /\ (Len(components(dir)) > 1 => ~last.found)

\* The only component that equals dir is the leaf of the path.
C21_Witness ==
    /\ last.op = "is_subdir"
    /\ last.arg1.bytes = <<"a", "/", "b">>
    /\ last.arg2.bytes = <<"b">>
    /\ last.found

\* The listing functions that list files, or directories without recursion.
TypeCheckedOps ==
    {"list_files", "list_directories", "list_nested_files",
     "list_files_with_filter", "list_directories_with_filter",
     "list_nested_files_with_filter"}

\* The root of the last call exists and is no directory.
RootIsNoDirectory == exists(fs, last.path) /\ ~is_dir(fs, last.path)

\* C22: list_files, list_directories, list_nested_files and their filtered
\* variants, sync and async, reject a root that exists and is no directory
\* with "path should be a directory, not a file" before any directory is
\* read; the error is never the I/O error of a directory read.
C22_FileRootIsPreconditionError ==
    (last.op \in TypeCheckedOps /\ RootIsNoDirectory) =>
        /\ last.status = "err"
        /\ last.err = "path should be a directory, not a file"
        /\ last.reads = <<>>
        /\ last.ioerrs = 0

\* The sync list_nested_files was called on a regular file below the root
\* and failed without a read.
C22_Witness ==
    /\ last.op = "list_nested_files"
    /\ last.surface = "sync"
    /\ last.path # Root
    /\ Kind(fs, last.path) = "file"
    /\ last.err = "path should be a directory, not a file"
    /\ last.reads = <<>>

\* The last call was the async list_nested_directories without a filter.
Relaxed == last.op = "list_nested_directories" /\ last.surface = "async"

\* C23: with a root that is a regular file, the async unfiltered
\* list_nested_directories, and no other listing function, goes on to the
\* directory read and fails with the I/O error of that read, in the context
\* "list items inner call"; the sync list_nested_directories and the
\* filtered list_nested_directories_with_filter, sync and async, fail with
\* the precondition error before any read.
C23_OnlyAsyncNestedDirectoriesRelaxed ==
    (last.op \in ListOps /\ RootIsNoDirectory) =>
        /\ last.status = "err"
        /\ Relaxed =>
              /\ last.err = "list items inner call"
              /\ last.reads = <<last.path>>
              /\ last.ioerrs = 1
        /\ ~Relaxed =>
              /\ last.err = "path should be a directory, not a file"
              /\ last.reads = <<>>

\* The async list_nested_directories was called on a regular file below the
\* root and failed in its read of that file as a directory.
C23_Witness ==
    /\ Relaxed
    /\ last.path # Root
    /\ Kind(fs, last.path) = "file"
    /\ last.err = "list items inner call"
    /\ last.reads = <<last.path>>

\* A step that is a call of ensure_directory on a path that is a regular file.
EnsureOnFile ==
    /\ Idle
    /\ last'.op = "ensure_directory"
    /\ is_file(fs, last'.path)

\* C24: ensure_directory(p) on a path p that exists as a regular file
\* returns success and changes nothing: p is a regular file afterwards and
\* no directory was created.
C24_EnsureOnFileSucceedsUnchanged ==
    [][EnsureOnFile =>
         /\ last'.status = "ok"
         /\ fs' = fs
         /\ is_file(fs', last'.path)
         /\ last'.made = {}]_vars

\* The async ensure_directory returned Ok on a path that is a regular file
\* inside a directory.
C24_Witness ==
    /\ last.op = "ensure_directory"
    /\ last.surface = "async"
    /\ last.status = "ok"
    /\ Len(last.path) = 2
    /\ Kind(fs, last.path) = "file"
    /\ last.made = {}

\* The directories below the root of the last call, at any depth.
DirsBelow == OfKind(Below(fs, last.path), "dir")

\* The directory d is, or lies below, a directory under the root of the
\* last call whose own name contains the text of the filter.
UnderNamed(d) ==
    \E k \in (Len(last.path) + 1)..Len(d) : Occurs(last.filter.pat, d[k])

\* C25, as the claim states it: list_nested_directories_with_filter returns
\* every directory whose name contains the filter text and every directory
\* at any depth below such a directory.
C25_AsClaimed ==
    AsyncOk("list_nested_directories_with_filter") =>
        \A d \in DirsBelow : UnderNamed(d) => d \in ItemSet

\* C25: a filter is evaluated against the full path of an entry, joined from
\* the root, not against its name: list_nested_directories_with_filter
\* returns the directories whose path text holds the filter text, and so
\* every directory whose name contains the filter text and every directory
\* at any depth below such a directory, if its path is text.
C25_FilterOnFullPath ==
    AsyncOk("list_nested_directories_with_filter") =>
        /\ ItemSet = {d \in DirsBelow : PassesLast(d)}
        /\ \A d \in DirsBelow :
              (UnderNamed(d) /\ IsText(PathText(d))) => d \in ItemSet

\* A Path filter that names the directory a under the root returned a and a
\* directory below it whose own name does not contain the filter text.
C25_Witness ==
    /\ AsyncOk("list_nested_directories_with_filter")
    /\ last.path = Root
    /\ last.filter.kind = "Path"
    /\ \E d \in ItemSet :
          /\ Len(d) = 2
          /\ parent(d) \in ItemSet
          /\ ~Occurs(last.filter.pat, d[2])

\* No path of q comes before one of its ancestors.
PreOrder(q) ==
    \A i, j \in 1..Len(q) : (i < j) => ~(q[i] # q[j] /\ IsPrefix(q[j], q[i]))

\* The paths of q that lie in one subtree are next to one another: between
\* two paths at or below a directory d there is no path from outside d.
Contiguous(q) ==
    \A i, j, k \in 1..Len(q) :
        (i < j /\ j < k) =>
            \A n \in 1..Len(q[i]) :
                LET d == SubSeq(q[i], 1, n) IN
                IsPrefix(d, q[k]) => IsPrefix(d, q[j])

\* The directories the call c has open: one per suspended invocation, and
\* the one whose read_dir it awaits.
OpenDirs(c) ==
    [k \in 1..Len(c.stack) |-> c.stack[k].dir]
    \o (IF c.opening THEN <<c.target>> ELSE <<>>)

\* Each open directory is a subdirectory of the one opened before it.
Chain(q) == \A k \in 2..Len(q) : parent(q[k]) = q[k - 1]

\* C26: the recursive walk is sequential, depth-first and pre-order: in the
\* paths a recursive listing returns a directory comes before each of its
\* descendants and the paths of one subtree are contiguous; at every moment
\* of the walk the open directories are a chain from the root, so two
\* subdirectories of one parent are never read at the same time.
C26_SequentialDepthFirstPreOrder ==
    \A t \in Tasks :
        /\ calls[t].phase = "run" =>
              /\ Chain(OpenDirs(calls[t]))
              /\ \A k \in 1..Len(calls[t].stack) :
                    /\ PreOrder(calls[t].stack[k].items)
                    /\ Contiguous(calls[t].stack[k].items)
        /\ (calls[t].phase = "done" /\ calls[t].status = "ok") =>
              /\ PreOrder(calls[t].items)
              /\ Contiguous(calls[t].items)
              /\ PreOrder(calls[t].reads)
              /\ Contiguous(calls[t].reads)

\* A recursive directory listing returned a directory, a directory below
\* it, and then a sibling of the first.
C26_Witness ==
    \E t \in Tasks :
        /\ calls[t].phase = "done"
        /\ calls[t].status = "ok"
        /\ calls[t].iterstate = "DirRec"
        /\ Len(calls[t].items) = 3
        /\ parent(calls[t].items[2]) = calls[t].items[1]
        /\ parent(calls[t].items[3]) = Root

\* The walker's call and its state.
TheWalk == calls[Walker]

Running == TheWalk.phase = "run"

Returned == TheWalk.phase = "done"

Recursive == TheWalk.iterstate \in {"FileRec", "DirRec"}

NoLink == \A p \in DOMAIN fs : fs[p] # "link"

\* The set of the elements of a sequence.
Range(q) == {q[i] : i \in 1..Len(q)}

\* C27, as the claim states it: where no symbolic link closes a cycle the
\* call returns and has read no directory twice; where one does, a
\* recursive listing never returns.
C27_AsClaimed ==
    /\ [](Returned =>
            /\ NoLinkCycle => Distinct(DirsOf(TheWalk.reads))
            /\ Recursive => NoLinkCycle)
    /\ ((Running /\ NoLinkCycle) ~> Returned)

\* C27: over a finite tree that is not modified during the call every
\* listing call returns, a recursive one also where a symbolic link closes
\* a cycle, since no path through more than MaxHops links is a directory.
\* A non-recursive call has read the root and nothing else; a recursive call
\* has read no path twice, and in a tree without symbolic links it has read
\* every directory of the subtree, each once.
C27_ListingReturns ==
    /\ [](Returned /\ TheWalk.status = "ok" =>
            /\ ~Recursive => TheWalk.reads = <<TheWalk.path>>
            /\ Recursive =>
                  /\ Distinct(TheWalk.reads)
                  /\ NoLink =>
                        /\ DirsOf(TheWalk.reads) = TheWalk.reads
                        /\ Range(TheWalk.reads) =
                              {TheWalk.path} \cup OfKind(Below(fs, TheWalk.path), "dir"))
    /\ (Running ~> Returned)

\* A recursive listing returned from a tree in which a symbolic link leads
\* back to the directory that holds it, after it went through the link.
C27_Witness ==
    /\ Returned
    /\ TheWalk.status = "ok"
    /\ Recursive
    /\ ~NoLinkCycle
    /\ \E i \in 1..Len(TheWalk.reads) : Kind(fs, TheWalk.reads[i]) = "link"

\* The two calls of ensure_directory are on the path p, both have seen it
\* absent, before either created it, and both have returned.
BothEnsured(p) ==
    \A t \in Tasks :
        /\ makers[t].phase = "done"
        /\ makers[t].path = p
        /\ makers[t].absent

\* No regular file stands where a directory above p has to be.
Clear(p) == \A a \in Ancestors(p) : Kind(fs, a) # "file"

\* C28: two calls of ensure_directory on the same missing path, interleaved
\* in any way between their existence tests and their system calls, both of
\* them past the test before the path is created, both return Ok, and the
\* path is a directory when both have returned.
C28_EnsureRaceBothSucceed ==
    \A p \in Paths :
        (BothEnsured(p) /\ Clear(p)) =>
            /\ \A t \in Tasks : makers[t].status = "ok"
            /\ \A a \in Ancestors(p) \cup {p} : Kind(fs, a) = "dir"

\* Both calls saw the path /a/b absent, with /a absent too, and both have
\* returned Ok.
C28_Witness ==
    /\ BothEnsured(<<<<"a">>, <<"b">>>>)
    /\ \A t \in Tasks : makers[t].status = "ok"
    /\ Kind(fs, <<<<"a">>, <<"b">>>>) = "dir"
    /\ Cardinality(DOMAIN fs) = 3

\* The innermost invocation of the walker's call and the entry it is at.
Innermost == TheWalk.stack[Len(TheWalk.stack)]

\* The step is the walker's match on an entry that is, at that moment,
\* neither a regular file nor a directory: a dangling link, or an entry
\* removed since the directory was read.
ClassifiesNoEntry ==
    /\ Running
    /\ ~TheWalk.opening
    /\ Innermost.i <= Len(Innermost.entries)
    /\ Innermost.entries[Innermost.i].ok
    /\ ~is_file(fs, Innermost.entries[Innermost.i].path)
    /\ ~is_dir(fs, Innermost.entries[Innermost.i].path)
    /\ calls'[Walker] # calls[Walker]

\* The paths the walker's call holds or has returned.
Held ==
    Range(TheWalk.items)
    \cup UNION {Range(TheWalk.stack[k].items) : k \in 1..Len(TheWalk.stack)}

\* C29: an entry that is neither a regular file nor a directory when the
\* walker classifies it, a dangling link or an entry removed since its
\* directory was read, is passed over in every mode: the call goes on to
\* the next entry with the same paths, it opens no directory and does not
\* fail; and no dangling link is ever among the paths of a call.
C29_NoEntryIsSkipped ==
    /\ [](\A p \in Held : Kind(fs, p) # "other")
    /\ [][ClassifiesNoEntry =>
            calls'[Walker] =
                [TheWalk EXCEPT !.stack[Len(TheWalk.stack)].i = @ + 1]]_vars

\* A recursive listing of files that has read the root only is past an
\* entry that was removed since the root was read and past a dangling
\* link: it holds neither, has opened no directory and goes on.
C29_Witness ==
    /\ Running
    /\ TheWalk.iterstate = "FileRec"
    /\ TheWalk.filter = NoFilter
    /\ ~TheWalk.opening
    /\ TheWalk.reads = <<Root>>
    /\ \E j, k \in 1..(Innermost.i - 1) :
          /\ Kind(fs, Innermost.entries[j].path) = "none"
          /\ Kind(fs, Innermost.entries[k].path) = "other"
          /\ Innermost.entries[j].path \notin Held

\* The step is a call of one of the two bulk creations.
BulkStep ==
    /\ Idle
    /\ last'.op \in {"create_numeric_directories", "create_multiple_directories"}

\* The call of the step has nothing to create: an empty range of numbers or
\* an empty list of names.
NothingAsked ==
    IF last'.op = "create_numeric_directories"
    THEN last'.start >= last'.end
    ELSE last'.names = <<>>

\* The first directory the call of the step is asked for.
FirstAsked ==
    IF last'.op = "create_numeric_directories"
    THEN join(last'.path, <<generate_n_digit_name(last'.start, last'.fill, <<>>)>>)
    ELSE join(last'.path, last'.names[1])

\* C30: create_numeric_directories with start >= end and
\* create_multiple_directories with no names return Ok and leave the
\* filesystem as it is, a missing root stays missing; with a number or a
\* name to create, a call on a missing root that succeeds has created the
\* root, as an ancestor of the first directory it created.
C30_EmptyBulkCreatesNothing ==
    [][BulkStep =>
         /\ NothingAsked =>
               /\ last'.status = "ok"
               /\ fs' = fs
               /\ exists(fs', last'.path) = exists(fs, last'.path)
         /\ (~NothingAsked /\ ~exists(fs, last'.path) /\ last'.status = "ok") =>
               /\ is_dir(fs', last'.path)
               /\ last'.path \in DOMAIN fs' \ DOMAIN fs
               /\ FirstAsked \in DOMAIN fs' \ DOMAIN fs
               /\ last'.path \in Ancestors(FirstAsked)
               /\ is_dir(fs', FirstAsked)]_vars

\* create_numeric_directories with an empty range returned Ok on a root
\* that is missing, and the root is missing still.
C30_Witness ==
    /\ last.op = "create_numeric_directories"
    /\ last.start >= last.end
    /\ last.status = "ok"
    /\ last.path # Root
    /\ Kind(fs, last.path) = "none"
    /\ last.made = {}

====
